---------------------------- MODULE Spec2Model ----------------------------
(***************************************************************************)
(* A model of the AnalogShield host driver (src/AnalogShield.py): the      *)
(* command codec, the write() command/response exchange over a serial      *)
(* transport read one byte at a time, and the session operations built on  *)
(* it (ramp setters, analog_write, analog_read).                           *)
(*                                                                         *)
(* Numbers.  Python ints are TLA+ integers.  A Python float is a rational  *)
(* [n |-> numerator, d |-> denominator] with d > 0.  Every denominator the *)
(* model feeds to volts_to_bits is a power of two times 1, so the IEEE     *)
(* double arithmetic of 13107*v + 65535 and of the division by 2 is exact  *)
(* and the rational result is the float result.                            *)
(* Bytes are integers 0..255; a character is a one-character string and    *)
(* ord() is the table Ord.                                                 *)
(***************************************************************************)
EXTENDS Integers, Sequences, FiniteSets, TLC

VARIABLES
    ramp,          \* self.ramp: the RampConfig cache, field -> channel -> value
    calibration_location,  \* self.calibration_location: NoneV or a path
    store,         \* the calibration file: NoneV (no file) or the pickled table
    adc_correct,   \* self.adc_correct: channel -> NoneV or a degree-1 polynomial
    dac_correct,   \* self.dac_correct
    pc,            \* caller -> where the caller's thread is
    prog,          \* caller -> the statements left to run of the operation in progress
    call,          \* caller -> the operation in progress (or the last one) and its arguments
    result,        \* caller -> how the last operation ended
    response,      \* caller -> write()'s local `response`
    ret,           \* caller -> the value the last write() call returned
    rxlog,         \* caller -> the bytes self.device.read() returned during the current write()
    nEmpty,        \* caller -> how many reads of the current write() returned no byte (saturating)
    warns,         \* caller -> the warnings.warn calls of the operation in progress
    tx,            \* the self.device.write calls since the operation began, in order
    sentSel,       \* the channel of the last 'rc' command written (-1: none yet)
    sentRamp,      \* parameter -> channel -> argument of the last parameter command
                   \* written while that channel was selected (-1: none yet)
    rxbuf,         \* the serial port's input buffer: delivered by the device, not yet read
    devq,          \* bytes the device has still to deliver
    exchPayload,   \* the payload the device chose for the command being exchanged
    devAlive,      \* FALSE once the device has stopped answering
    owed,          \* commands received whose terminator the host has not yet read
    opsLeft,       \* operations the model may still start
    peer,          \* a second session, of another shield, that uses the same calibration
                   \* file: where it is, its two tables, its local `calibration`
    earlier,       \* the calibration that had returned when the current call began: its
                   \* channel, its sweep's data and the entry it left (NoneV: none)
    actual_readings,  \* caller -> the meter readings of the sweep so far (actual_readings
                      \* of adc_calibrate, dac_output of dac_calibrate)
    adc_readings,  \* caller -> adc_calibrate's local adc_readings
    calibration,   \* caller -> the local `calibration` of a calibration's save step
    bench,         \* how the shield is wired: "open" (the ADC inputs carry anything) or
                   \* "loop" (DAC 0 feeds the ADC inputs)
    dacOut,        \* the bits of DAC 0's output register, kept on the "loop" bench
    cin, cout, cstage   \* the harness of the pure functions: input, output, stage

vars == << ramp, calibration_location, store, adc_correct, dac_correct, pc, prog, call, result, response, ret,
           rxlog, nEmpty, warns, tx, sentSel, sentRamp, rxbuf, devq, exchPayload, devAlive, owed, opsLeft, earlier, peer,
           actual_readings, adc_readings, calibration, bench, dacOut,
           cin, cout, cstage >>

sessionVars == << ramp, calibration_location, store, adc_correct, dac_correct, pc, prog, call, result, response,
                  ret, rxlog, nEmpty, warns, tx, sentSel, sentRamp, rxbuf, devq, exchPayload, devAlive, owed, opsLeft, earlier, peer,
                  actual_readings, adc_readings, calibration, bench, dacOut >>

codecVars == << cin, cout, cstage >>
benchVars == << bench, dacOut >>
\* what lies around the session's calls: how many may start, the calibration
\* before the current call, the other session
opsVars == << opsLeft, earlier, peer >>
devVars == << rxbuf, devq, devAlive, owed, benchVars >>
sweepVars == << actual_readings, adc_readings, calibration >>
tableVars == << calibration_location, store, adc_correct, dac_correct >>
calVars == << tableVars, sweepVars >>
wrVars == << response, ret, rxlog, nEmpty, exchPayload >>
txVars == << tx, sentSel, sentRamp >>

---------------------------------------------------------------------------
(* Bounds *)

\* operations started after construction
MaxOps == 1
\* reads without a byte that nEmpty tells apart
MaxEmpty == 1
\* the codec harness's voltage grid has steps of 1/GridDen V
GridDen == 8
\* calibrations a session runs one after the other
MaxCals == 2
\* points of a sweep in the fit's harness
FitLen == 3

---------------------------------------------------------------------------
(* Values *)

Callers == {1, 2}
Chan == 0..3
\* the channel selector "all"
ChAll == 100
\* Python's None
NoneV == [none |-> TRUE]
\* other Python values a variable of mixed type holds: a str (its characters), a
\* list, a bool, a waveform name; a number is its rational
StrV(chars) == [str |-> chars]
ListV(items) == [list |-> items]
BoolV(b) == [bool |-> b]
NameV(s) == [name |-> s]
TERM == 59

R(k) == [n |-> k, d |-> 1]
RLt(a, b) == a.n * b.d < b.n * a.d
RLe(a, b) == a.n * b.d <= b.n * a.d
\* int(x) of a float: truncation toward zero
Trunc(num, den) == IF num >= 0 THEN num \div den ELSE -((-num) \div den)

Last(s) == s[Len(s)]
Front(s) == SubSeq(s, 1, Len(s) - 1)

RECURSIVE Concat(_)
Concat(ss) == IF ss = << >> THEN << >> ELSE Head(ss) \o Concat(Tail(ss))

\* ord(char) for the characters of the command identifiers
Ord(c) ==
    CASE c = "r" -> 114 [] c = "c" -> 99  [] c = "p" -> 112 [] c = "a" -> 97
      [] c = "o" -> 111 [] c = "s" -> 115 [] c = "f" -> 102 [] c = "v" -> 118
      [] c = "q" -> 113 [] c = "m" -> 109 [] c = "A" -> 65
      [] c = "0" -> 48  [] c = "1" -> 49  [] c = "2" -> 50  [] c = "3" -> 51
      [] c = "4" -> 52  [] c = "5" -> 53  [] c = "6" -> 54  [] c = "7" -> 55
      [] c = "8" -> 56  [] c = "9" -> 57  [] c = "-" -> 45

Digit(k) ==
    CASE k = 0 -> "0" [] k = 1 -> "1" [] k = 2 -> "2" [] k = 3 -> "3" [] k = 4 -> "4"
      [] k = 5 -> "5" [] k = 6 -> "6" [] k = 7 -> "7" [] k = 8 -> "8" [] k = 9 -> "9"

\* str(channel) for an integer of one digit: its characters
Str(k) == IF k < 0 THEN << "-", Digit(-k) >> ELSE << Digit(k) >>

---------------------------------------------------------------------------
(* Codec *)

\* Faulty variants of the codec, which the properties below must tell from it:
\* the two bytes in LSB, MSB order
encode_num_lsb_first(n) == << n % 256, n \div 256 >>
\* round() where the code has int()
volts_to_bits_rounding(volts) ==
    Trunc(2 * (13107 * volts.n + 65535 * volts.d) + 2 * volts.d, 4 * volts.d)
\* the factor 2 forgotten
bits_to_volts_unscaled(bits) == [n |-> bits - 5 * 13107, d |-> 13107]
\* a byte container that takes any integer
IsByte_unchecked(b) == b \in Int

encode_num(n) == << n \div 256, n % 256 >>

volts_to_bits(volts) == Trunc(13107 * volts.n + 65535 * volts.d, 2 * volts.d)

bits_to_volts(bits) == [n |-> 2 * bits - 5 * 13107, d |-> 13107]

\* bytearray(...) and bytearray.extend(...) take integers in range(256) only
IsByte(b) == b \in 0..255

\* byte_list of write(): the identifier's codes, then the argument's two bytes
byte_list(identifier, arg) ==
    [i \in 1..Len(identifier) |-> Ord(identifier[i])] \o encode_num(arg)

\* chr(b) for the bytes a device response is made of
Chr(b) ==
    CASE b = 48 -> "0" [] b = 49 -> "1" [] b = 102 -> "f" [] b = 103 -> "g"
      [] b = 44 -> "," [] b = 59 -> ";"
      [] b = 51 -> "3" [] b = 54 -> "6" [] b = 57 -> "9" [] b = 99 -> "c"

\* response.decode("latin-1"): byte b becomes the character with code point b
latin1(bytes) == [i \in 1..Len(bytes) |-> Chr(bytes[i])]

---------------------------------------------------------------------------
(* Statements.  An operation in progress is the list of the statements it   *)
(* has still to run; a statement that calls write() blocks in its receive   *)
(* loop until the terminator is read.                                       *)

\* self.ramp[f][ch] = v
SSet(f, ch, v) == [k |-> "set", f |-> f, ch |-> ch, v |-> v]
\* return self.ramp[f][ch]
SGet(f, ch) == [k |-> "get", f |-> f, ch |-> ch]
\* self.write(id, arg)
SCmd(id, arg) == [k |-> "cmd", id |-> id, arg |-> arg]
\* raise e
SRaise(e) == [k |-> "raise", e |-> e]
\* self.analog_write(ch, val, correct)
SAnalogWrite(ch, val, correct) ==
    [k |-> "analog_write", ch |-> ch, val |-> val, correct |-> correct]
\* self.analog_read(ch, samples, correct)
SAnalogRead(ch, samples, correct) ==
    [k |-> "analog_read", ch |-> ch, samples |-> samples, correct |-> correct]
\* the rest of analog_read once write() has returned
SDecode(ch, correct) == [k |-> "decode", ch |-> ch, correct |-> correct]
\* a method falls off its end or runs a bare return: its value is None
SNone == [k |-> "none"]
\* the operation returns the value of its last statement to the caller
SReturn == [k |-> "return"]

\* v_actual = multimeter.voltage(), appended to the sweep's readings
SMeter == [k |-> "meter"]
\* v_adc = np.mean(<the list analog_read returned>), appended to adc_readings
SMean == [k |-> "mean"]
\* self.<dir>_correct[ch] = np.poly1d(np.polyfit(..., 1))
SFit(dir, ch) == [k |-> "fit", dir |-> dir, ch |-> ch]
\* calibration = pickle.load(...) or {"adc": self.adc_correct, "dac": self.dac_correct}
SLoad == [k |-> "load"]
\* calibration[<dir>][ch] = self.dac_correct[ch]
SUpdate(dir, ch) == [k |-> "update", dir |-> dir, ch |-> ch]
\* pickle.dump(calibration, calibration_file, protocol=2)
SDump == [k |-> "dump"]

RC == << "r", "c" >>

---------------------------------------------------------------------------
(* Ramp methods: the statements each runs *)

\* faulty variant: the getter selects the channel on the device first
ramp_running_selects(channel) == << SCmd(RC, channel), SGet("on", channel) >>

\* a list indexed by the str "all" raises TypeError
ramp_running(channel) ==
    IF channel = ChAll THEN << SRaise("TypeError") >> ELSE << SGet("on", channel) >>

ramp_on1(channel) ==
    << SSet("on", channel, TRUE), SCmd(RC, channel), SCmd(<< "r", "1" >>, 0) >>

ramp_on(channel) ==
    IF channel = ChAll
    THEN Concat([c \in 1..4 |-> ramp_on1(c - 1)]) \o << SNone >>
    ELSE ramp_on1(channel)

ramp_off1(channel) ==
    << SSet("on", channel, FALSE), SCmd(RC, channel), SCmd(<< "r", "0" >>, 0) >>

ramp_off(channel) ==
    IF channel = ChAll
    THEN Concat([c \in 1..4 |-> ramp_off1(c - 1)]) \o << SNone >>
    ELSE ramp_off1(channel)

\* write(identifier, x) with x a Python number: a float has no >> operator
CmdNum(identifier, x) ==
    IF x.d = 1 THEN SCmd(identifier, x.n) ELSE SRaise("TypeError")

ramp_period1(channel, time) ==
    IF time = NoneV THEN << SGet("period", channel) >>
    ELSE IF RLt(R(0), time)
    THEN << SSet("period", channel, time), SCmd(RC, channel),
            CmdNum(<< "r", "p" >>, time) >>
    ELSE << SRaise("ValueError") >>

\* faulty variant: with "all" the four cache entries are set before anything is sent
ramp_period_cache_first(channel, time) ==
    IF channel = ChAll /\ time # NoneV /\ RLt(R(0), time)
    THEN [c \in 1..4 |-> SSet("period", c - 1, time)]
           \o Concat([c \in 1..4 |-> << SCmd(RC, c - 1), CmdNum(<< "r", "p" >>, time) >>])
           \o << SNone >>
    ELSE IF channel = ChAll
    THEN Concat([c \in 1..4 |-> ramp_period1(c - 1, time)]) \o << SNone >>
    ELSE ramp_period1(channel, time)

ramp_period(channel, time) ==
    IF channel = ChAll
    THEN Concat([c \in 1..4 |-> ramp_period1(c - 1, time)]) \o << SNone >>
    ELSE ramp_period1(channel, time)

ramp_amplitude1(channel, amp) ==
    IF amp = NoneV THEN << SGet("amplitude", channel) >>
    ELSE IF RLe(R(0), amp) /\ RLe(amp, R(5))
    THEN << SSet("amplitude", channel, amp), SCmd(RC, channel),
            SCmd(<< "r", "a" >>, volts_to_bits(amp)) >>
    ELSE << SRaise("ValueError") >>

\* faulty variant: for one channel the parameter is sent without selecting it
ramp_amplitude_no_select(channel, amp) ==
    IF channel = ChAll
    THEN Concat([c \in 1..4 |-> ramp_amplitude1(c - 1, amp)]) \o << SNone >>
    ELSE IF amp # NoneV /\ RLe(R(0), amp) /\ RLe(amp, R(5))
    THEN << SSet("amplitude", channel, amp), SCmd(<< "r", "a" >>, volts_to_bits(amp)) >>
    ELSE ramp_amplitude1(channel, amp)

\* faulty variant: "all" goes through the channels from 3 down to 0
ramp_amplitude_descending(channel, amp) ==
    IF channel = ChAll
    THEN Concat([c \in 1..4 |-> ramp_amplitude1(4 - c, amp)]) \o << SNone >>
    ELSE ramp_amplitude1(channel, amp)

ramp_amplitude(channel, amp) ==
    IF channel = ChAll
    THEN Concat([c \in 1..4 |-> ramp_amplitude1(c - 1, amp)]) \o << SNone >>
    ELSE ramp_amplitude1(channel, amp)

ramp_offset1(channel, offset) ==
    IF offset = NoneV THEN << SGet("offset", channel) >>
    ELSE IF RLe(R(-5), offset) /\ RLe(offset, R(5))
    THEN << SSet("offset", channel, offset), SCmd(RC, channel),
            SCmd(<< "r", "o" >>, volts_to_bits(offset)) >>
    ELSE << SNone >>

ramp_offset(channel, offset) ==
    IF channel = ChAll
    THEN Concat([c \in 1..4 |-> ramp_offset1(c - 1, offset)]) \o << SNone >>
    ELSE ramp_offset1(channel, offset)

\* int(phase * 65535/100)
phase_bits(phase) == Trunc(phase.n * 65535, 100 * phase.d)

ramp_phase1(channel, phase) ==
    IF phase = NoneV THEN << SGet("phase", channel) >>
    ELSE IF RLe(R(0), phase) /\ RLe(phase, R(100))
    THEN << SSet("phase", channel, phase), SCmd(RC, channel),
            SCmd(<< "r", "s" >>, phase_bits(phase)) >>
    ELSE << SNone >>

ramp_phase(channel, phase) ==
    IF channel = ChAll
    THEN Concat([c \in 1..4 |-> ramp_phase1(c - 1, phase)]) \o << SNone >>
    ELSE ramp_phase1(channel, phase)

func_num(name) == CASE name = "triangle" -> 0 [] name = "sin" -> 1 [] name = "square" -> 2

ramp_function1(channel, function) ==
    IF function = NoneV THEN << SGet("function", channel) >>
    ELSE IF function.name \in {"triangle", "sin", "square"}
    THEN << SSet("function", channel, function.name), SCmd(RC, channel),
            SCmd(<< "r", "f" >>, func_num(function.name)) >>
    ELSE << SRaise("ValueError") >>

ramp_function(channel, function) ==
    IF channel = ChAll
    THEN Concat([c \in 1..4 |-> ramp_function1(c - 1, function)]) \o << SNone >>
    ELSE ramp_function1(channel, function)

queue_on == << SCmd(<< "q", "m" >>, 1) >>
queue_off == << SCmd(<< "q", "m" >>, 0) >>

\* faulty variant: the throwaway reads come before the DAC outputs are zeroed
init_reset_reads_first ==
    queue_off \o ramp_off(ChAll) \o ramp_period(ChAll, R(100))
      \o ramp_amplitude(ChAll, R(5)) \o ramp_offset(ChAll, R(0))
      \o ramp_phase(ChAll, R(0)) \o ramp_function(ChAll, NameV("triangle"))
      \o [c \in 1..4 |-> SAnalogRead(c - 1, 5, TRUE)]
      \o << SAnalogWrite(ChAll, R(0), TRUE) >>
      \o << SNone >>

\* __init__ from "Reset to known default state" on; the values of the reads are
\* dropped
init_reset ==
    queue_off \o ramp_off(ChAll) \o ramp_period(ChAll, R(100))
      \o ramp_amplitude(ChAll, R(5)) \o ramp_offset(ChAll, R(0))
      \o ramp_phase(ChAll, R(0)) \o ramp_function(ChAll, NameV("triangle"))
      \o << SAnalogWrite(ChAll, R(0), TRUE) >>
      \o [c \in 1..4 |-> SAnalogRead(c - 1, 5, TRUE)]
      \o << SNone >>

---------------------------------------------------------------------------
(* Correction functions and response decoding *)

\* a numpy poly1d of degree 1, a*x + b, applied to x
PolyEval(p, x) ==
    [n |-> p.a.n * x.n * p.b.d + p.b.n * p.a.d * x.d, d |-> p.a.d * x.d * p.b.d]

Poly(a, b) == [a |-> a, b |-> b]

\* Python's max(a, b) and min(a, b): b only when it is strictly beyond a
PyMax(a, b) == IF RLt(a, b) THEN b ELSE a
PyMin(a, b) == IF RLt(b, a) THEN b ELSE a

\* faulty variant: the corrected value is used as it comes
clamp_missing(val) == val

\* analog_write: "Make sure the corrected value stays within range"
clamp(val) == PyMin(R(5), PyMax(R(-5), val))

\* a Python list index: negative indices count from the end
PyIndexOk(i) == i \in -4..3
PyIndex(i) == IF i < 0 THEN i + 4 ELSE i

\* response.split(",")
RECURSIVE split(_)
split(s) ==
    IF \A i \in 1..Len(s) : s[i] # ","
    THEN << s >>
    ELSE LET i == CHOOSE j \in 1..Len(s) : s[j] = "," /\ \A m \in 1..(j - 1) : s[m] # ","
         IN  << SubSeq(s, 1, i - 1) >> \o split(SubSeq(s, i + 1, Len(s)))

HexDigits == {"0", "1", "3", "6", "9", "c", "f"}
HexVal(c) ==
    CASE c = "0" -> 0 [] c = "1" -> 1 [] c = "3" -> 3 [] c = "6" -> 6 [] c = "9" -> 9
      [] c = "c" -> 12 [] c = "f" -> 15

\* faulty variant: the empty field is taken for zero
BadHex_but_empty(x) == \E i \in 1..Len(x) : x[i] \notin HexDigits

\* int(x, 16) raises ValueError on these
BadHex(x) == Len(x) = 0 \/ \E i \in 1..Len(x) : x[i] \notin HexDigits

RECURSIVE int16(_)
int16(x) == IF x = << >> THEN 0 ELSE 16 * int16(Front(x)) + HexVal(Last(x))

---------------------------------------------------------------------------
(* The least-squares fit of a sweep, in exact arithmetic *)

Abs(k) == IF k < 0 THEN -k ELSE k

RECURSIVE Gcd(_, _)
Gcd(a, b) == IF b = 0 THEN a ELSE Gcd(b, a % b)

\* the rational num/den in lowest terms, its denominator positive
Norm(num, den) ==
    LET g == Gcd(Abs(num), Abs(den))
        sgn == IF den < 0 THEN -1 ELSE 1
    IN  [n |-> sgn * (num \div g), d |-> sgn * (den \div g)]

RAdd(a, b) == Norm(a.n * b.d + b.n * a.d, a.d * b.d)
RSub(a, b) == Norm(a.n * b.d - b.n * a.d, a.d * b.d)
RMul(a, b) == Norm(a.n * b.n, a.d * b.d)
RDiv(a, b) == Norm(a.n * b.d, a.d * b.n)

RECURSIVE RSum(_)
RSum(xs) ==
    IF xs = << >> THEN R(0) ELSE RAdd(Norm(Head(xs).n, Head(xs).d), RSum(Tail(xs)))

\* np.mean of a list of numbers
mean(xs) == RDiv(RSum(xs), R(Len(xs)))

\* faulty variant: the two lists change places, the line predicts x from y
polyfit_swapped(x, y) ==
    LET n == R(Len(x))
        Sx == RSum(x)
        Sy == RSum(y)
        Sxy == RSum([i \in 1..Len(x) |-> RMul(x[i], y[i])])
        Syy == RSum([i \in 1..Len(x) |-> RMul(y[i], y[i])])
        a == RDiv(RSub(RMul(n, Sxy), RMul(Sx, Sy)), RSub(RMul(n, Syy), RMul(Sy, Sy)))
        b == RDiv(RSub(Sx, RMul(a, Sy)), n)
    IN  Poly(a, b)

\* np.poly1d(np.polyfit(x, y, 1)): the line a*x + b that minimises the squared
\* error over the points (x[i], y[i]); the points of a sweep never share one x
polyfit(x, y) ==
    LET n == R(Len(x))
        Sx == RSum(x)
        Sy == RSum(y)
        Sxy == RSum([i \in 1..Len(x) |-> RMul(x[i], y[i])])
        Sxx == RSum([i \in 1..Len(x) |-> RMul(x[i], x[i])])
        a == RDiv(RSub(RMul(n, Sxy), RMul(Sx, Sy)), RSub(RMul(n, Sxx), RMul(Sx, Sx)))
        b == RDiv(RSub(Sy, RMul(a, Sx)), n)
    IN  Poly(a, b)

---------------------------------------------------------------------------
(* Calibration methods: the statements each runs *)

\* "If a calibration file was given, save the updated calibration"
save(dir, channel) ==
    IF calibration_location # NoneV
    THEN << SLoad, SUpdate(dir, channel), SDump >>
    ELSE << >>

\* faulty variant: the ADC is read before the meter
adc_step_read_first(channel, v_out) ==
    << SAnalogWrite(0, R(v_out), TRUE), SAnalogRead(channel, 500, FALSE), SMean, SMeter >>

\* one turn of adc_calibrate's loop
adc_step(channel, v_out) ==
    << SAnalogWrite(0, R(v_out), TRUE), SMeter, SAnalogRead(channel, 500, FALSE), SMean >>

adc_calibrate(channel) ==
    << SAnalogWrite(0, R(-5), TRUE) >>
      \o Concat([i \in 1..11 |-> adc_step(channel, i - 6)])
      \o << SFit("adc", channel) >>
      \o save("adc", channel)

\* one turn of dac_calibrate's loop
dac_step(channel, v_out) == << SAnalogWrite(channel, R(v_out), FALSE), SMeter >>

\* dac_calibrate's input_v: range(-5, 6)
input_v == [i \in 1..11 |-> R(i - 6)]

\* faulty variant: the table is already fitted to the first two steps
dac_calibrate_early_fit(channel) ==
    << SAnalogWrite(channel, R(-5), FALSE) >>
      \o Concat([i \in 1..2 |-> dac_step(channel, input_v[i].n)])
      \o << SFit("dac", channel) >>
      \o Concat([i \in 1..9 |-> dac_step(channel, input_v[i + 2].n)])
      \o << SFit("dac", channel) >>
      \o save("dac", channel)

dac_calibrate(channel) ==
    << SAnalogWrite(channel, R(-5), FALSE) >>
      \o Concat([i \in 1..11 |-> dac_step(channel, input_v[i].n)])
      \o << SFit("dac", channel) >>
      \o save("dac", channel)

\* The reference meters the model tries, by what successive voltage() calls
\* return: the commanded voltage of the step; half of it; the commanded
\* voltage twice and then an exception
MeterIn == {"exact", "half", "broken"}
voltage_raises(meter, i) == meter = "broken" /\ i > 2
voltage(meter, i) == IF meter = "half" THEN Norm(i - 6, 2) ELSE R(i - 6)

---------------------------------------------------------------------------
(* The transport and the device *)

\* the payloads a device response carries: "", "0", "f,1", "0,g"
Payloads == { << >>, << 48 >>, << 102, 44, 49 >>, << 48, 44, 103 >> }

\* what the device puts on the wire for one command: the payload and the
\* terminator ("The response to a command is always terminated by a
\* semicolon"), or, when the device fails, the payload alone or nothing
Frame(payload, fate) ==
    CASE fate = "answer" -> payload \o << TERM >>
      [] fate = "cut" -> payload
      [] fate = "silent" -> << >>

\* self.device.read(): at most one byte, none when the buffer is empty (timeout=0)
read(buf) == IF buf = << >> THEN << >> ELSE << Head(buf) >>

\* Faulty variants of the receive loop's exit test: any byte ends the loop; the
\* loop ends unconditionally; the test looks at the first byte of the response
terminated_by_any_byte(resp) == Len(resp) > 0
terminated_at_once(resp) == TRUE
terminated_by_first_byte(resp) == Len(resp) > 0 /\ resp[1] = TERM

\* the receive loop's exit test
terminated(resp) == Len(resp) > 0 /\ Last(resp) = TERM

\* The "loop" bench.  The ADC tells six levels apart, 2 V from one to the next:
\* level k reads as the code 13107 * k, which is -5 + 2k V exactly.
Level(bits) == bits \div 13107

\* the four hex digits of level k's code: 0000, 3333, 6666, 9999, cccc, ffff
Code(k) ==
    LET digit == CASE k = 0 -> 48 [] k = 1 -> 51 [] k = 2 -> 54 [] k = 3 -> 57
                   [] k = 4 -> 99 [] k = 5 -> 102
    IN  << digit, digit, digit, digit >>

\* an ADC read on the loop bench answers two samples, the level of DAC 0's output
\* and the level above it (the top level twice)
Samples(bits) ==
    Code(Level(bits)) \o << 44 >> \o Code(IF Level(bits) < 5 THEN Level(bits) + 1 ELSE 5)

\* the payloads the device may answer a command with: anything on the open bench;
\* on the loop bench the samples, or a garbled field, to an ADC read and nothing
\* to any other command
Responses(id) ==
    IF bench = "open" THEN Payloads
    ELSE IF id[1] = "A" THEN { Samples(dacOut), << 48, 44, 103 >> }
    ELSE { << >> }

\* 'v0' and 'va' set DAC 0's output
Drives(id) == id = << "v", "0" >> \/ id = << "v", "a" >>

\* the device receives a command
DeviceReceive(id, arg) ==
    /\ IF devAlive
       THEN \E payload \in Responses(id), fate \in {"answer", "cut", "silent"} :
               /\ devq' = devq \o Frame(payload, fate)
               /\ exchPayload' = payload
               /\ devAlive' = (fate = "answer")
               /\ owed' = owed + 1
       ELSE /\ owed' = owed + 1
            /\ exchPayload' = << >>
            /\ UNCHANGED << devq, devAlive >>
    /\ dacOut' = IF bench = "loop" /\ devAlive /\ Drives(id) THEN arg ELSE dacOut
    /\ UNCHANGED bench

\* the device delivers its next byte to the host's input buffer
DeviceDeliver ==
    /\ devq # << >>
    /\ rxbuf' = Append(rxbuf, Head(devq))
    /\ devq' = Tail(devq)
    /\ UNCHANGED << ramp, calVars, pc, prog, call, result, wrVars, warns, txVars,
                    devAlive, owed, benchVars, opsVars, codecVars >>

---------------------------------------------------------------------------
(* The caller's thread *)


At(t, kind) == pc[t] = "run" /\ prog[t] # << >> /\ Head(prog[t]).k = kind

\* the statement before was a call whose value nobody kept: write()'s locals and
\* the value it returned are gone
ClearExchange(t) ==
    /\ response' = [response EXCEPT ![t] = << >>]
    /\ rxlog' = [rxlog EXCEPT ![t] = << >>]
    /\ nEmpty' = [nEmpty EXCEPT ![t] = 0]
    /\ exchPayload' = << >>

Discard(t) == ret' = [ret EXCEPT ![t] = NoneV] /\ ClearExchange(t)

\* statement done: go on with the next one
Advance(t) == prog' = [prog EXCEPT ![t] = Tail(prog[t])] /\ UNCHANGED << pc, result >>

\* replace the statement by the statements it stands for
Expand(t, stmts) ==
    prog' = [prog EXCEPT ![t] = stmts \o Tail(prog[t])] /\ UNCHANGED << pc, result >>

\* an exception nothing catches ends the operation; out of __init__ it leaves no session
Raise(t, e) ==
    /\ pc' = [pc EXCEPT ![t] = IF call[t].op = "__init__" THEN "failed" ELSE "idle"]
    /\ prog' = [prog EXCEPT ![t] = << >>]
    /\ result' = [result EXCEPT ![t] = [kind |-> e]]

RampDefaults ==
    [on |-> [c \in Chan |-> FALSE], period |-> [c \in Chan |-> R(100)],
     amplitude |-> [c \in Chan |-> R(5)], offset |-> [c \in Chan |-> R(0)],
     phase |-> [c \in Chan |-> R(0)], function |-> [c \in Chan |-> "triangle"]]

Uncalibrated == [c \in Chan |-> NoneV]

\* faulty variant: only the ADC table is taken from the file
load_calibration_adc_only(location, file) ==
    IF location # NoneV /\ file # NoneV
    THEN [adc |-> file.adc, dac |-> Uncalibrated]
    ELSE [adc |-> Uncalibrated, dac |-> Uncalibrated]

\* the correction tables __init__ starts with: the file's when a path is given and
\* the file exists, else [None] * 4 twice
load_calibration(location, file) ==
    IF location # NoneV /\ file # NoneV
    THEN [adc |-> file.adc, dac |-> file.dac]
    ELSE [adc |-> Uncalibrated, dac |-> Uncalibrated]

\* AnalogShield(address, calibration_location)
Construct(t) ==
    /\ pc[t] = "new"
    /\ ramp' = RampDefaults
    /\ adc_correct' = load_calibration(calibration_location, store).adc
    /\ dac_correct' = load_calibration(calibration_location, store).dac
    /\ call' = [call EXCEPT ![t] = [op |-> "__init__", ch |-> 0, v |-> NoneV,
                                    n |-> 0, correct |-> TRUE]]
    /\ pc' = [pc EXCEPT ![t] = "run"]
    /\ prog' = [prog EXCEPT ![t] = init_reset \o << SReturn >>]
    /\ UNCHANGED << calibration_location, store, sweepVars, result, wrVars, warns, txVars,
                    devVars, opsVars, codecVars >>

\* the session's entry for the direction and channel of t's calibration
Entry(t) ==
    IF call[t].op = "adc_calibrate"
    THEN adc_correct[PyIndex(call[t].ch)]
    ELSE dac_correct[PyIndex(call[t].ch)]

\* what is remembered of t's last call when the next one begins
Remembered(t) ==
    IF call[t].op \in {"adc_calibrate", "dac_calibrate"} /\ result[t].kind = "returned"
    THEN [op |-> call[t].op, ch |-> call[t].ch, adc_readings |-> adc_readings[t],
          actual_readings |-> actual_readings[t], entry |-> Entry(t)]
    ELSE NoneV

\* a call of a session method by the program using the driver
StartOp(t, c, stmts) ==
    /\ pc[t] = "idle"
    /\ opsLeft > 0
    /\ opsLeft' = opsLeft - 1
    /\ earlier' = Remembered(t)
    /\ UNCHANGED peer
    /\ call' = [call EXCEPT ![t] = c]
    /\ pc' = [pc EXCEPT ![t] = "run"]
    /\ prog' = [prog EXCEPT ![t] = stmts \o << SReturn >>]
    /\ result' = [result EXCEPT ![t] = [kind |-> "running"]]
    /\ Discard(t)
    /\ warns' = [warns EXCEPT ![t] = << >>]
    \* the log begins anew unless another caller's call is under way
    /\ tx' = IF \E u \in Callers \ {t} : pc[u] \in {"run", "w_first", "w_loop"}
             THEN tx ELSE << >>
    /\ actual_readings' = [actual_readings EXCEPT ![t] = << >>]
    /\ adc_readings' = [adc_readings EXCEPT ![t] = << >>]
    /\ calibration' = [calibration EXCEPT ![t] = NoneV]
    /\ UNCHANGED << sentSel, sentRamp >>
    /\ UNCHANGED << ramp, tableVars, devVars, codecVars >>

\* self.ramp[f][ch] = v
DoSet(t) ==
    /\ At(t, "set")
    /\ LET s == Head(prog[t]) IN
         IF PyIndexOk(s.ch)
         THEN /\ ramp' = [ramp EXCEPT ![s.f][PyIndex(s.ch)] = s.v]
              /\ Advance(t)
         ELSE /\ Raise(t, "IndexError")
              /\ UNCHANGED ramp
    /\ Discard(t)
    /\ UNCHANGED << calVars, call, warns, txVars, devVars, opsVars, codecVars >>

\* return self.ramp[f][ch]
DoGet(t) ==
    /\ At(t, "get")
    /\ LET s == Head(prog[t]) IN
         IF PyIndexOk(s.ch)
         THEN /\ ret' = [ret EXCEPT ![t] =
                        LET x == ramp[s.f][PyIndex(s.ch)] IN
                          CASE s.f = "on" -> BoolV(x)
                            [] s.f = "function" -> NameV(x)
                            [] OTHER -> x]
              /\ Advance(t)
         ELSE /\ Raise(t, "IndexError")
              /\ UNCHANGED ret
    /\ ClearExchange(t)
    /\ UNCHANGED << ramp, calVars, call, warns, txVars, devVars, opsVars, codecVars >>

DoRaise(t) ==
    /\ At(t, "raise")
    /\ Raise(t, Head(prog[t]).e)
    /\ Discard(t)
    /\ UNCHANGED << ramp, calVars, call, warns, txVars, devVars, opsVars, codecVars >>

DoNone(t) ==
    /\ At(t, "none")
    /\ Discard(t)
    /\ Advance(t)
    /\ UNCHANGED << ramp, calVars, call, warns, txVars, devVars, opsVars, codecVars >>

\* the operation returns to its caller
DoReturn(t) ==
    /\ At(t, "return")
    /\ result' = [result EXCEPT ![t] = [kind |-> "returned", val |-> ret[t]]]
    /\ pc' = [pc EXCEPT ![t] = "idle"]
    /\ prog' = [prog EXCEPT ![t] = << >>]
    /\ UNCHANGED << ramp, calVars, call, wrVars, warns, txVars, devVars, opsVars, codecVars >>

\* the parameter a ramp command carries, and the value it carries for it
RampFields == {"on", "period", "amplitude", "offset", "phase", "function"}

ParamOf(id) ==
    CASE id = << "r", "1" >> -> "on"       [] id = << "r", "0" >> -> "on"
      [] id = << "r", "p" >> -> "period"   [] id = << "r", "a" >> -> "amplitude"
      [] id = << "r", "o" >> -> "offset"   [] id = << "r", "s" >> -> "phase"
      [] id = << "r", "f" >> -> "function" [] OTHER -> "none"

ParamValue(id, arg) ==
    CASE id = << "r", "1" >> -> 1 [] id = << "r", "0" >> -> 0 [] OTHER -> arg

\* what the commands written so far have set for each channel: 'rc' selects the
\* channel the parameter commands after it are for
Sent(id, arg) ==
    IF id = RC
    THEN sentSel' = arg /\ UNCHANGED sentRamp
    ELSE IF ParamOf(id) # "none" /\ sentSel \in Chan
    THEN /\ sentRamp' = [sentRamp EXCEPT ![ParamOf(id)][sentSel] = ParamValue(id, arg)]
         /\ UNCHANGED sentSel
    ELSE UNCHANGED << sentSel, sentRamp >>

\* write(): encode the command and hand it to the transport
DoCmd(t) ==
    /\ At(t, "cmd")
    /\ LET s == Head(prog[t])
           bl == byte_list(s.id, s.arg)
       IN  IF \E i \in 1..Len(bl) : ~IsByte(bl[i])
           THEN /\ Raise(t, "ValueError")
                /\ Discard(t)
                /\ UNCHANGED << txVars, devVars >>
           ELSE /\ tx' = Append(tx, [by |-> t, bytes |-> bl])
                /\ Sent(s.id, s.arg)
                /\ DeviceReceive(s.id, s.arg)
                /\ pc' = [pc EXCEPT ![t] = "w_first"]
                /\ ret' = [ret EXCEPT ![t] = NoneV]
                /\ response' = [response EXCEPT ![t] = << >>]
                /\ rxlog' = [rxlog EXCEPT ![t] = << >>]
                /\ nEmpty' = [nEmpty EXCEPT ![t] = 0]
                /\ UNCHANGED << prog, result, rxbuf >>
    /\ UNCHANGED << ramp, calVars, call, warns, opsVars, codecVars >>

\* one self.device.read() as the transport and the bookkeeping see it
Received(t, got) ==
    /\ rxbuf' = IF got = << >> THEN rxbuf ELSE Tail(rxbuf)
    /\ rxlog' = [rxlog EXCEPT ![t] = rxlog[t] \o got]
    /\ nEmpty' = [nEmpty EXCEPT ![t] =
                    IF got = << >> /\ nEmpty[t] < MaxEmpty THEN nEmpty[t] + 1 ELSE nEmpty[t]]
    /\ owed' = IF got = << TERM >> THEN owed - 1 ELSE owed
    /\ UNCHANGED << devq, exchPayload, devAlive, benchVars >>

\* response = self.device.read()
FirstRead(t) ==
    /\ pc[t] = "w_first"
    /\ LET got == read(rxbuf) IN
         /\ Received(t, got)
         /\ response' = [response EXCEPT ![t] = got]
    /\ pc' = [pc EXCEPT ![t] = "w_loop"]
    /\ UNCHANGED << ramp, calVars, prog, call, result, ret, warns, txVars, opsVars, codecVars >>

\* one turn of the receive loop, and write()'s return when it breaks
LoopRead(t) ==
    /\ pc[t] = "w_loop"
    /\ LET got == read(rxbuf)
           resp == response[t] \o got
       IN  /\ Received(t, got)
           /\ response' = [response EXCEPT ![t] = resp]
           /\ IF terminated(resp)
              THEN /\ ret' = [ret EXCEPT ![t] = StrV(Front(latin1(resp)))]
                   /\ pc' = [pc EXCEPT ![t] = "run"]
                   /\ prog' = [prog EXCEPT ![t] = Tail(prog[t])]
              ELSE UNCHANGED << ret, pc, prog >>
    /\ UNCHANGED << ramp, calVars, call, result, warns, txVars, opsVars, codecVars >>

\* self.device.write(byte_list) raises: the port fails before the command leaves
WriteFails(t) ==
    /\ At(t, "cmd")
    /\ LET s == Head(prog[t])
           bl == byte_list(s.id, s.arg)
       IN  \A i \in 1..Len(bl) : IsByte(bl[i])
    /\ Raise(t, "SerialException")
    /\ Discard(t)
    /\ UNCHANGED << ramp, calVars, call, warns, txVars, devVars, opsVars, codecVars >>

\* self.device.read() raises in the receive loop: the command has left, its
\* response is not read
ReadFails(t) ==
    /\ pc[t] \in {"w_first", "w_loop"}
    /\ Raise(t, "SerialException")
    /\ Discard(t)
    /\ UNCHANGED << ramp, calVars, call, warns, txVars, devVars, opsVars, codecVars >>

---------------------------------------------------------------------------
(* DAC and ADC methods *)

\* analog_write: does the call look up self.dac_correct[channel]?
aw_corrects(channel, correct) == correct /\ channel # ChAll

\* analog_write: the value converted to bits
aw_val(channel, val, correct) ==
    IF aw_corrects(channel, correct) /\ dac_correct[PyIndex(channel)] # NoneV
    THEN clamp(PolyEval(dac_correct[PyIndex(channel)], val))
    ELSE val

\* analog_write: the command sent for a channel selector, if any
aw_send(channel, val_bits) ==
    IF channel = ChAll THEN << SCmd(<< "v", "a" >>, val_bits) >>
    ELSE IF 0 <= channel /\ channel <= 3
    THEN << SCmd(<< "v" >> \o Str(channel), val_bits) >>
    ELSE << SNone >>

DoAnalogWrite(t) ==
    /\ At(t, "analog_write")
    /\ LET s == Head(prog[t]) IN
         IF aw_corrects(s.ch, s.correct) /\ ~PyIndexOk(s.ch)
         THEN /\ Raise(t, "IndexError")
              /\ UNCHANGED warns
         ELSE /\ warns' = [warns EXCEPT ![t] =
                    IF aw_corrects(s.ch, s.correct) /\ dac_correct[PyIndex(s.ch)] = NoneV
                    THEN Append(warns[t], [what |-> "DAC", ch |-> s.ch])
                    ELSE warns[t]]
              /\ Expand(t, aw_send(s.ch, volts_to_bits(aw_val(s.ch, s.val, s.correct))))
    /\ Discard(t)
    /\ UNCHANGED << ramp, calVars, call, txVars, devVars, opsVars, codecVars >>

\* faulty variant: only the upper end of the channel range is tested
ar_channel_ok_upper_only(channel) == channel <= 3

\* analog_read: the channel test
ar_channel_ok(channel) == 0 <= channel /\ channel <= 3

DoAnalogRead(t) ==
    /\ At(t, "analog_read")
    /\ LET s == Head(prog[t]) IN
         IF ar_channel_ok(s.ch)
         THEN Expand(t, << SCmd(<< "A" >> \o Str(s.ch), s.samples), SDecode(s.ch, s.correct) >>)
         ELSE Raise(t, "ValueError")
    /\ Discard(t)
    /\ UNCHANGED << ramp, calVars, call, warns, txVars, devVars, opsVars, codecVars >>

\* faulty variant: the voltages come out last field first
ar_voltages_reversed(resp) ==
    LET fields == split(resp)
    IN  [i \in 1..Len(fields) |-> bits_to_volts(int16(fields[Len(fields) + 1 - i]))]

\* analog_read: the voltages of a response, before correction
ar_voltages(resp) ==
    LET fields == split(resp) IN [i \in 1..Len(fields) |-> bits_to_volts(int16(fields[i]))]

DoDecode(t) ==
    /\ At(t, "decode")
    /\ LET s == Head(prog[t])
           fields == split(ret[t].str)
           f == adc_correct[s.ch]
       IN  IF \E i \in 1..Len(fields) : BadHex(fields[i])
           THEN /\ Raise(t, "ValueError")
                /\ UNCHANGED << ret, warns >>
           ELSE /\ ret' = [ret EXCEPT ![t] = ListV(
                      IF s.correct /\ f # NoneV
                      THEN [i \in 1..Len(fields) |-> PolyEval(f, ar_voltages(ret[t].str)[i])]
                      ELSE ar_voltages(ret[t].str))]
                /\ warns' = [warns EXCEPT ![t] =
                      IF s.correct /\ f = NoneV
                      THEN Append(warns[t], [what |-> "ADC", ch |-> s.ch])
                      ELSE warns[t]]
                /\ Advance(t)
    /\ ClearExchange(t)
    /\ UNCHANGED << ramp, calVars, call, txVars, devVars, opsVars, codecVars >>

---------------------------------------------------------------------------
(* Calibration: the sweep's data, the fit and the file *)

\* v_actual = multimeter.voltage(); the reading joins the list at once (the code
\* appends it at the end of the turn, and nothing reads the list in between)
DoMeter(t) ==
    /\ At(t, "meter")
    /\ LET i == Len(actual_readings[t]) + 1
           meter == call[t].v.name
       IN  IF voltage_raises(meter, i)
           THEN /\ Raise(t, "IOError")
                /\ UNCHANGED actual_readings
           ELSE /\ actual_readings' = [actual_readings EXCEPT ![t] =
                                          Append(actual_readings[t], voltage(meter, i))]
                /\ Advance(t)
    /\ Discard(t)
    /\ UNCHANGED << ramp, tableVars, adc_readings, calibration, call, warns, txVars,
                    devVars, opsVars, codecVars >>

\* v_adc = np.mean(self.analog_read(channel, 500, correct=False))
DoMean(t) ==
    /\ At(t, "mean")
    /\ adc_readings' = [adc_readings EXCEPT ![t] = Append(adc_readings[t], mean(ret[t].list))]
    /\ Advance(t)
    /\ Discard(t)
    /\ UNCHANGED << ramp, tableVars, actual_readings, calibration, call, warns, txVars,
                    devVars, opsVars, codecVars >>

\* self.adc_correct[channel] = np.poly1d(np.polyfit(adc_readings, actual_readings, 1))
\* self.dac_correct[channel] = np.poly1d(np.polyfit(dac_output, input_v, 1))
DoFit(t) ==
    /\ At(t, "fit")
    /\ LET s == Head(prog[t]) IN
         IF ~PyIndexOk(s.ch)
         THEN /\ Raise(t, "IndexError")
              /\ UNCHANGED << adc_correct, dac_correct >>
         ELSE /\ IF s.dir = "adc"
                 THEN /\ adc_correct' = [adc_correct EXCEPT ![PyIndex(s.ch)] =
                                           polyfit(adc_readings[t], actual_readings[t])]
                      /\ UNCHANGED dac_correct
                 ELSE /\ dac_correct' = [dac_correct EXCEPT ![PyIndex(s.ch)] =
                                           polyfit(actual_readings[t], input_v)]
                      /\ UNCHANGED adc_correct
              /\ Advance(t)
    /\ Discard(t)
    /\ UNCHANGED << ramp, calibration_location, store, sweepVars, call, warns, txVars,
                    devVars, opsVars, codecVars >>

\* the file's tables when the file exists; else a dict made of the session's own
\* two lists, so that an assignment into it is an assignment into the session's table
DoLoad(t) ==
    /\ At(t, "load")
    /\ calibration' = [calibration EXCEPT ![t] =
                         IF store # NoneV
                         THEN [own |-> FALSE, adc |-> store.adc, dac |-> store.dac]
                         ELSE [own |-> TRUE]]
    /\ Advance(t)
    /\ Discard(t)
    /\ UNCHANGED << ramp, tableVars, actual_readings, adc_readings, call, warns, txVars,
                    devVars, opsVars, codecVars >>

\* faulty variant: only the ADC list is kept, the DAC list starts empty
Lists_adc_only(t) ==
    IF calibration[t].own
    THEN [adc |-> adc_correct, dac |-> Uncalibrated]
    ELSE [adc |-> calibration[t].adc, dac |-> Uncalibrated]

\* faulty variant: what is dumped is the file as it is now with the one entry
\* replaced, when the file exists
Lists_reread(t) ==
    IF store # NoneV /\ ~calibration[t].own
    THEN IF call[t].op = "adc_calibrate"
         THEN [store EXCEPT !.adc[call[t].ch] = calibration[t].adc[call[t].ch]]
         ELSE [store EXCEPT !.dac[call[t].ch] = calibration[t].dac[call[t].ch]]
    ELSE [adc |-> adc_correct, dac |-> dac_correct]

\* the two lists the local `calibration` holds
Lists(t) ==
    IF calibration[t].own
    THEN [adc |-> adc_correct, dac |-> dac_correct]
    ELSE [adc |-> calibration[t].adc, dac |-> calibration[t].dac]

\* calibration["adc"][channel] = self.dac_correct[channel]   (adc_calibrate)
\* calibration["dac"][channel] = self.dac_correct[channel]   (dac_calibrate)
DoUpdate(t) ==
    /\ At(t, "update")
    /\ LET s == Head(prog[t])
           c == PyIndex(s.ch)
       IN  IF calibration[t].own
           THEN /\ IF s.dir = "adc"
                   THEN adc_correct' = [adc_correct EXCEPT ![c] = dac_correct[c]]
                   ELSE UNCHANGED adc_correct
                /\ UNCHANGED << dac_correct, calibration >>
           ELSE /\ calibration' = [calibration EXCEPT ![t][s.dir][c] = dac_correct[c]]
                /\ UNCHANGED << adc_correct, dac_correct >>
    /\ Advance(t)
    /\ Discard(t)
    /\ UNCHANGED << ramp, calibration_location, store, actual_readings, adc_readings, call,
                    warns, txVars, devVars, opsVars, codecVars >>

\* pickle.dump(calibration, calibration_file, protocol=2)
DoDump(t) ==
    /\ At(t, "dump")
    /\ store' = Lists(t)
    /\ Advance(t)
    /\ Discard(t)
    /\ UNCHANGED << ramp, calibration_location, adc_correct, dac_correct, sweepVars, call,
                    warns, txVars, devVars, opsVars, codecVars >>

---------------------------------------------------------------------------
(* Calls of the session's methods, with the arguments the model tries *)

ChanIn == (-1..4) \cup {ChAll}
ReadChanIn == -1..4
PeriodIn == {NoneV, R(0), R(50), R(70000)}
AmplitudeIn == {NoneV, R(0), R(5), R(6)}
OffsetIn == {NoneV, R(-6), R(-5), R(5)}
PhaseIn == {NoneV, R(50), R(100), R(101)}
FunctionIn == {NoneV, NameV("sin"), NameV("square"), NameV("saw")}
VoltsIn == {R(-5), R(0), [n |-> 5, d |-> 2], R(5), R(6)}
SamplesIn == {1, 500}

CallRec(op, ch, v, n, correct) ==
    [op |-> op, ch |-> ch, v |-> v, n |-> n, correct |-> correct]

\* identifiers and arguments of direct write() calls
IdentIn == { << "v", "0" >>, << "q", "m" >> }
ArgIn == {-1, 0, 4660, 65535, 65536}

Call_write(t) ==
    \E id \in IdentIn, arg \in ArgIn :
        StartOp(t, CallRec("write", 0, StrV(id), arg, TRUE), << SCmd(id, arg) >>)

Call_ramp_running(t) ==
    \E ch \in ChanIn :
        StartOp(t, CallRec("ramp_running", ch, NoneV, 0, TRUE), ramp_running(ch))

Call_ramp_on(t) ==
    \E ch \in ChanIn : StartOp(t, CallRec("ramp_on", ch, NoneV, 0, TRUE), ramp_on(ch))

Call_ramp_off(t) ==
    \E ch \in ChanIn : StartOp(t, CallRec("ramp_off", ch, NoneV, 0, TRUE), ramp_off(ch))

Call_ramp_period(t) ==
    \E ch \in ChanIn, v \in PeriodIn :
        StartOp(t, CallRec("ramp_period", ch, v, 0, TRUE), ramp_period(ch, v))

Call_ramp_amplitude(t) ==
    \E ch \in ChanIn, v \in AmplitudeIn :
        StartOp(t, CallRec("ramp_amplitude", ch, v, 0, TRUE), ramp_amplitude(ch, v))

Call_ramp_offset(t) ==
    \E ch \in ChanIn, v \in OffsetIn :
        StartOp(t, CallRec("ramp_offset", ch, v, 0, TRUE), ramp_offset(ch, v))

Call_ramp_phase(t) ==
    \E ch \in ChanIn, v \in PhaseIn :
        StartOp(t, CallRec("ramp_phase", ch, v, 0, TRUE), ramp_phase(ch, v))

Call_ramp_function(t) ==
    \E ch \in ChanIn, v \in FunctionIn :
        StartOp(t, CallRec("ramp_function", ch, v, 0, TRUE), ramp_function(ch, v))

Call_analog_write(t) ==
    \E ch \in ChanIn, v \in VoltsIn, correct \in BOOLEAN :
        StartOp(t, CallRec("analog_write", ch, v, 0, correct),
                << SAnalogWrite(ch, v, correct) >>)

Call_analog_read(t) ==
    \E ch \in ReadChanIn, n \in SamplesIn, correct \in BOOLEAN :
        StartOp(t, CallRec("analog_read", ch, NoneV, n, correct),
                << SAnalogRead(ch, n, correct) >>)

\* the channels the model calibrates
CalChanIn == {0, 3}

Call_adc_calibrate(t) ==
    \E ch \in CalChanIn, meter \in MeterIn :
        StartOp(t, CallRec("adc_calibrate", ch, NameV(meter), 0, TRUE), adc_calibrate(ch))

Call_dac_calibrate(t) ==
    \E ch \in CalChanIn, meter \in MeterIn :
        StartOp(t, CallRec("dac_calibrate", ch, NameV(meter), 0, TRUE), dac_calibrate(ch))

---------------------------------------------------------------------------
(* The session's specification *)

\* a calibration file written by an earlier session
StoredTable ==
    [adc |-> [c \in Chan |-> IF c = 0 THEN Poly([n |-> 1, d |-> 2], [n |-> -1, d |-> 2])
                             ELSE NoneV],
     dac |-> [c \in Chan |-> CASE c = 0 -> Poly(R(2), R(0))
                               [] c = 3 -> Poly([n |-> 1, d |-> 2], R(-8))
                               [] OTHER -> NoneV]]

CalPath == [path |-> "calibration"]

Quiet ==
    /\ ramp = RampDefaults
    /\ adc_correct = Uncalibrated
    /\ dac_correct = Uncalibrated
    /\ prog = [t \in Callers |-> << >>]
    /\ call = [t \in Callers |-> CallRec("none", 0, NoneV, 0, TRUE)]
    /\ result = [t \in Callers |-> [kind |-> "running"]]
    /\ response = [t \in Callers |-> << >>]
    /\ ret = [t \in Callers |-> NoneV]
    /\ rxlog = [t \in Callers |-> << >>]
    /\ nEmpty = [t \in Callers |-> 0]
    /\ warns = [t \in Callers |-> << >>]
    /\ tx = << >>
    /\ sentSel = -1
    /\ sentRamp = [f \in RampFields |-> [c \in Chan |-> -1]]
    /\ rxbuf = << >>
    /\ devq = << >>
    /\ exchPayload = << >>
    /\ devAlive = TRUE
    /\ owed = 0
    /\ earlier = NoneV
    /\ peer = [pc |-> "new", adc_correct |-> Uncalibrated, dac_correct |-> Uncalibrated,
               calibration |-> NoneV]
    /\ actual_readings = [t \in Callers |-> << >>]
    /\ adc_readings = [t \in Callers |-> << >>]
    /\ calibration = [t \in Callers |-> NoneV]
    \* the register's value at power-on; every session writes it before it reads
    /\ dacOut = 0

\* before construction: no path, a path without a file, or a path with a file
Fresh ==
    /\ Quiet
    /\ pc = [t \in Callers |-> IF t = 1 THEN "new" ELSE "absent"]
    /\ \E cfg \in { << NoneV, NoneV >>, << CalPath, NoneV >>, << CalPath, StoredTable >> } :
          calibration_location = cfg[1] /\ store = cfg[2]
    /\ cin = R(0) /\ cout = R(0) /\ cstage = "off"

Init == Fresh /\ bench = "open" /\ opsLeft = MaxOps

Step(t) ==
    \/ Construct(t)
    \/ Call_write(t)
    \/ Call_ramp_running(t)
    \/ Call_ramp_on(t)
    \/ Call_ramp_off(t)
    \/ Call_ramp_period(t)
    \/ Call_ramp_amplitude(t)
    \/ Call_ramp_offset(t)
    \/ Call_ramp_phase(t)
    \/ Call_ramp_function(t)
    \/ Call_analog_write(t)
    \/ Call_analog_read(t)
    \/ DoSet(t)
    \/ DoGet(t)
    \/ DoRaise(t)
    \/ DoNone(t)
    \/ DoReturn(t)
    \/ DoCmd(t)
    \/ FirstRead(t)
    \/ LoopRead(t)
    \/ DoAnalogWrite(t)
    \/ DoAnalogRead(t)
    \/ DoDecode(t)

Next == (\E t \in Callers : Step(t)) \/ DeviceDeliver

Spec == Init /\ [][Next]_vars

\* the same session on a port whose write and read may raise
FaultNext == Next \/ (\E t \in Callers : WriteFails(t) \/ ReadFails(t))

FaultSpec == Init /\ [][FaultNext]_vars

---------------------------------------------------------------------------
(* Two threads on one session, nothing serializing their calls *)

MaxRace == 2

\* the constructed session is handed to a second thread
Join(t) ==
    /\ pc[t] = "absent"
    /\ \E u \in Callers : pc[u] = "idle" /\ call[u].op = "__init__"
    /\ pc' = [pc EXCEPT ![t] = "idle"]
    /\ UNCHANGED << prog, result, ramp, calVars, call, wrVars, warns, txVars, devVars,
                    opsVars, codecVars >>

\* the calls the two threads make
RaceChanIn == {0, 1}
RaceAmplitudeIn == {R(0), R(5)}

Race_ramp_amplitude(t) ==
    \E ch \in RaceChanIn, v \in RaceAmplitudeIn :
        StartOp(t, CallRec("ramp_amplitude", ch, v, 0, TRUE), ramp_amplitude(ch, v))

\* write("A0", 1): the payload comes back as the device sent it
RaceIdent == << "A", "0" >>

Race_write(t) ==
    StartOp(t, CallRec("write", 0, StrV(RaceIdent), 1, TRUE), << SCmd(RaceIdent, 1) >>)

\* a session without a calibration file
RaceInit == Fresh /\ calibration_location = NoneV /\ bench = "loop" /\ opsLeft = MaxRace

RaceStep(t) ==
    \/ Construct(t)
    \/ Join(t)
    \/ Race_ramp_amplitude(t)
    \/ Race_write(t)
    \/ DoSet(t)
    \/ DoNone(t)
    \/ DoReturn(t)
    \/ DoCmd(t)
    \/ FirstRead(t)
    \/ LoopRead(t)
    \/ DoAnalogWrite(t)
    \/ DoAnalogRead(t)
    \/ DoDecode(t)

RaceNext == (\E t \in Callers : RaceStep(t)) \/ DeviceDeliver

RaceSpec == RaceInit /\ [][RaceNext]_vars

\* the caller's thread runs, and a device that has bytes to send sends them
FairSpec ==
    /\ Spec
    /\ WF_vars(DeviceDeliver)
    /\ \A t \in Callers : WF_vars(FirstRead(t)) /\ WF_vars(LoopRead(t))

---------------------------------------------------------------------------
(* Calibration on the loop bench: a session is constructed and calibrates one *)
(* channel in one direction                                                  *)

CalInit == Fresh /\ bench = "loop" /\ opsLeft = MaxOps

CalStep(t) ==
    \/ Construct(t)
    \/ Call_adc_calibrate(t)
    \/ Call_dac_calibrate(t)
    \/ DoSet(t)
    \/ DoNone(t)
    \/ DoReturn(t)
    \/ DoCmd(t)
    \/ FirstRead(t)
    \/ LoopRead(t)
    \/ DoAnalogWrite(t)
    \/ DoAnalogRead(t)
    \/ DoDecode(t)
    \/ DoMeter(t)
    \/ DoMean(t)
    \/ DoFit(t)
    \/ DoLoad(t)
    \/ DoUpdate(t)
    \/ DoDump(t)

CalNext == (\E t \in Callers : CalStep(t)) \/ DeviceDeliver

CalSpec == CalInit /\ [][CalNext]_vars

\* the same with a session that calibrates MaxCals times
\* the calibration bench on a port whose write and read may raise
CalFaultNext == CalNext \/ (\E t \in Callers : WriteFails(t) \/ ReadFails(t))

CalFaultSpec == CalInit /\ [][CalFaultNext]_vars

RecalInit == Fresh /\ bench = "loop" /\ opsLeft = MaxCals

RecalSpec == RecalInit /\ [][CalNext]_vars

---------------------------------------------------------------------------
(* Two sessions and one calibration file.  The other session drives a shield *)
(* of its own; of its run the model keeps the steps that touch its tables    *)
(* and the file: its construction, the fit of a dac_calibrate and the save.  *)

\* the channel the other session calibrates, and the line its sweep gives
PeerChan == 1
PeerFit == Poly(R(3), R(1))

\* AnalogShield(address, path): the tables start from the file if it exists
PeerConstruct ==
    /\ peer.pc = "new"
    /\ peer' = [peer EXCEPT !.pc = "ready",
                            !.adc_correct = load_calibration(CalPath, store).adc,
                            !.dac_correct = load_calibration(CalPath, store).dac]
    /\ UNCHANGED << ramp, calVars, pc, prog, call, result, wrVars, warns, txVars, devVars,
                    opsLeft, earlier, codecVars >>

\* dac_calibrate(PeerChan, multimeter) up to
\* self.dac_correct[channel] = np.poly1d(np.polyfit(dac_output, input_v, 1))
PeerSweep ==
    /\ peer.pc = "ready"
    /\ peer' = [peer EXCEPT !.pc = "fitted", !.dac_correct[PeerChan] = PeerFit]
    /\ UNCHANGED << ramp, calVars, pc, prog, call, result, wrVars, warns, txVars, devVars,
                    opsLeft, earlier, codecVars >>

\* calibration = pickle.load(...) or {"adc": self.adc_correct, "dac": self.dac_correct}
PeerLoad ==
    /\ peer.pc = "fitted"
    /\ peer' = [peer EXCEPT !.pc = "loaded",
                            !.calibration = IF store # NoneV
                                            THEN [own |-> FALSE, adc |-> store.adc,
                                                  dac |-> store.dac]
                                            ELSE [own |-> TRUE]]
    /\ UNCHANGED << ramp, calVars, pc, prog, call, result, wrVars, warns, txVars, devVars,
                    opsLeft, earlier, codecVars >>

\* calibration["dac"][channel] = self.dac_correct[channel]
PeerUpdate ==
    /\ peer.pc = "loaded"
    /\ peer' = IF peer.calibration.own
               THEN [peer EXCEPT !.pc = "updated"]
               ELSE [peer EXCEPT !.pc = "updated",
                                 !.calibration.dac[PeerChan] = peer.dac_correct[PeerChan]]
    /\ UNCHANGED << ramp, calVars, pc, prog, call, result, wrVars, warns, txVars, devVars,
                    opsLeft, earlier, codecVars >>

\* the two lists the other session's `calibration` holds
PeerLists ==
    IF peer.calibration.own
    THEN [adc |-> peer.adc_correct, dac |-> peer.dac_correct]
    ELSE [adc |-> peer.calibration.adc, dac |-> peer.calibration.dac]

\* pickle.dump(calibration, calibration_file, protocol=2)
PeerDump ==
    /\ peer.pc = "updated"
    /\ store' = PeerLists
    /\ peer' = [peer EXCEPT !.pc = "done"]
    /\ UNCHANGED << ramp, calibration_location, adc_correct, dac_correct, sweepVars, pc, prog,
                    call, result, wrVars, warns, txVars, devVars, opsLeft, earlier, codecVars >>

PeerStep == PeerConstruct \/ PeerSweep \/ PeerLoad \/ PeerUpdate \/ PeerDump

ShareNext == CalNext \/ PeerStep

ShareSpec == CalInit /\ [][ShareNext]_vars

---------------------------------------------------------------------------
(* The codec's conversions on a grid of voltages in [-5, 5] *)

Grid == { [n |-> k, d |-> GridDen] : k \in (-5 * GridDen)..(5 * GridDen) }

Codec_volts_to_bits ==
    /\ cstage = "volts"
    /\ cout' = R(volts_to_bits(cin))
    /\ cstage' = "bits"
    /\ UNCHANGED << cin, sessionVars >>

Codec_bits_to_volts ==
    /\ cstage = "bits"
    /\ cout' = bits_to_volts(cout.n)
    /\ cstage' = "back"
    /\ UNCHANGED << cin, sessionVars >>

CodecInit ==
    /\ Quiet
    /\ bench = "open"
    /\ opsLeft = MaxOps
    /\ pc = [t \in Callers |-> "absent"]
    /\ calibration_location = NoneV
    /\ store = NoneV
    /\ cin \in Grid
    /\ cout = R(0)
    /\ cstage = "volts"

CodecNext == Codec_volts_to_bits \/ Codec_bits_to_volts

CodecSpec == CodecInit /\ [][CodecNext]_vars

---------------------------------------------------------------------------
(* The fit on sweeps whose points lie on one line: the true voltages are    *)
(* FitLen integers of the shield's range, not all the same, and the raw     *)
(* value of each is RawOf of it                                             *)

RawOf(true) == R(2 * true + 1)

Sweeps == { sw \in [1..FitLen -> -5..5] : \E i, j \in 1..FitLen : sw[i] # sw[j] }

\* np.poly1d(np.polyfit(raw, true, 1))
Fit_polyfit ==
    /\ cstage = "sweep"
    /\ cout' = polyfit([i \in 1..FitLen |-> RawOf(cin[i])], [i \in 1..FitLen |-> R(cin[i])])
    /\ cstage' = "fitted"
    /\ UNCHANGED << cin, sessionVars >>

\* the fitted function applied to each raw value, as analog_read applies it
Fit_apply ==
    /\ cstage = "fitted"
    /\ cout' = [i \in 1..FitLen |-> PolyEval(cout, RawOf(cin[i]))]
    /\ cstage' = "applied"
    /\ UNCHANGED << cin, sessionVars >>

FitInit ==
    /\ Quiet
    /\ bench = "open"
    /\ opsLeft = MaxOps
    /\ pc = [t \in Callers |-> "absent"]
    /\ calibration_location = NoneV
    /\ store = NoneV
    /\ cin \in Sweeps
    /\ cout = R(0)
    /\ cstage = "sweep"

FitNext == Fit_polyfit \/ Fit_apply

FitSpec == FitInit /\ [][FitNext]_vars

---------------------------------------------------------------------------
(* Properties *)

InWrite(t) == pc[t] \in {"w_first", "w_loop"}

\* write() has returned and nothing has run since
JustReturned(t) == ~InWrite(t) /\ rxlog[t] # << >>

\* the terminator is on its way: sent by the device or waiting in the input buffer
TermPending ==
    \/ \E i \in 1..Len(devq) : devq[i] = TERM
    \/ \E i \in 1..Len(rxbuf) : rxbuf[i] = TERM

\* C1: whenever write() has returned, the last byte its reads received is the
\* terminator 0x3B, the value returned is the bytes received before it, in order,
\* as characters, which is the payload the device sent, and no terminator is
\* still owed; this whatever the split of the response over the reads.
C1_Framing ==
    \A t \in Callers :
        JustReturned(t) =>
            /\ Last(rxlog[t]) = TERM
            /\ Len(ret[t].str) = Len(rxlog[t]) - 1
            /\ \A i \in 1..Len(ret[t].str) : ret[t].str[i] = Chr(rxlog[t][i])
            /\ Front(rxlog[t]) = exchPayload
            /\ owed = 0

\* C1 witness: a three-byte payload returned by a call one of whose reads
\* returned no byte.
C1_Witness ==
    \E t \in Callers :
        /\ JustReturned(t)
        /\ ret[t] = StrV(<< "f", ",", "1" >>)
        /\ nEmpty[t] >= 1

\* C2: a write() whose terminator is on its way returns, and a write() whose
\* device has sent no terminator and will send none stays in its receive loop:
\* it neither returns nor raises.
C2_ReturnsIffTerminator ==
    /\ \A t \in Callers : (InWrite(t) /\ TermPending) ~> ~InWrite(t)
    /\ [][\A t \in Callers :
            (InWrite(t) /\ ~TermPending /\ (\A i \in 1..Len(rxlog[t]) : rxlog[t][i] # TERM))
                => (InWrite(t))' /\ result'[t] = result[t]]_vars

\* C2 witness: the device has stopped after a payload without terminator, the
\* payload has been read, and the receive loop has polled an empty buffer.
C2_Witness ==
    \E t \in Callers :
        /\ pc[t] = "w_loop"
        /\ ~devAlive /\ devq = << >> /\ rxbuf = << >>
        /\ response[t] = << 102, 44, 49 >>
        /\ nEmpty[t] >= 1

\* C3: at most one command awaits its terminator, and when none does no byte of
\* an earlier response is left on the wire or in the input buffer.
C3_OneInFlight ==
    /\ owed <= 1
    /\ owed = 0 => devq = << >> /\ rxbuf = << >>

\* C3 witness: a later command of an operation after construction awaits its
\* terminator.
C3_Witness ==
    \E t \in Callers :
        /\ call[t].op = "ramp_amplitude"
        /\ Len(tx) >= 4
        /\ InWrite(t)
        /\ owed = 1

\* one transport write by caller t of four bytes: the identifier's two codes, then
\* the two bytes of arg, high byte first
IsCommand(w, t, id, arg) ==
    /\ w.by = t
    /\ Len(w.bytes) = 4
    /\ w.bytes[1] = Ord(id[1]) /\ w.bytes[2] = Ord(id[2])
    /\ w.bytes[3] \in 0..255 /\ w.bytes[4] \in 0..255
    /\ 256 * w.bytes[3] + w.bytes[4] = arg

\* C4: every command in exchange was handed to the transport as one write of four
\* bytes, the identifier's two codes and the argument high byte first; a direct
\* write(identifier, arg) with arg in 0..65535 makes exactly that one write.
C4_Encoding ==
    \A t \in Callers :
        /\ InWrite(t) =>
             LET s == Head(prog[t]) IN
               /\ s.arg \in 0..65535
               /\ Len(s.id) = 2 => IsCommand(Last(tx), t, s.id, s.arg)
        /\ (call[t].op = "write" /\ call[t].n \in 0..65535 /\ ~At(t, "cmd")) =>
               Len(tx) = 1 /\ IsCommand(tx[1], t, call[t].v.str, call[t].n)

\* C4 witness: write("v0", 0x1234) has sent 'v', '0', 0x12, 0x34.
C4_Witness ==
    \E t \in Callers :
        /\ call[t].op = "write" /\ call[t].v = StrV(<< "v", "0" >>) /\ call[t].n = 4660
        /\ tx = << [by |-> t, bytes |-> << 118, 48, 18, 52 >>] >>

\* C5: a direct write() with an argument outside [0, 65535] writes nothing to the
\* transport, never enters the receive loop and ends with ValueError.
C5_ArgRange ==
    \A t \in Callers :
        (call[t].op = "write" /\ call[t].n \notin 0..65535) =>
            /\ tx = << >>
            /\ ~InWrite(t)
            /\ pc[t] = "idle" => result[t].kind = "ValueError"

\* C5 witness: write(identifier, 65536) has raised ValueError.
C5_Witness ==
    \E t \in Callers :
        /\ call[t].op = "write" /\ call[t].n = 65536
        /\ pc[t] = "idle" /\ result[t].kind = "ValueError"

\* twice the exact value (13107*v + 65535)/2 for an integer voltage v
TwiceExact(v) == 13107 * v + 65535

\* round(x) of x = num/2 >= 0: ties away from zero, and ties to even (Python 3)
RoundHalfUp(num) == (num + 1) \div 2
RoundHalfEven(num) ==
    IF num % 2 = 0 THEN num \div 2
    ELSE IF ((num - 1) \div 2) % 2 = 0 THEN (num - 1) \div 2 ELSE (num + 1) \div 2

IntegerVolts == cin.n % cin.d = 0

\* C6 as claimed: for an integer voltage v in -5..5, volts_to_bits(v) is
\* (13107*v + 65535)/2 rounded to the nearest integer.
C6_RoundsToNearest ==
    (cstage = "bits" /\ IntegerVolts) =>
        LET x2 == TwiceExact(cin.n \div cin.d) IN
          cout.n \in { RoundHalfUp(x2), RoundHalfEven(x2) }

\* C6 as amended: for an integer voltage v in -5..5, volts_to_bits(v) is
\* (13107*v + 65535)/2 truncated: the largest integer not above it, so an even v,
\* whose exact value ends in .5, gets the lower neighbour and 0 V gives 32767;
\* -5 V gives 0 and 5 V gives 65535.  The same truncation holds at every voltage
\* of the grid.
C6_Truncates ==
    cstage = "bits" =>
        /\ 2 * cin.d * cout.n <= 13107 * cin.n + 65535 * cin.d
        /\ 13107 * cin.n + 65535 * cin.d < 2 * cin.d * (cout.n + 1)
        /\ IntegerVolts =>
             LET v == cin.n \div cin.d
                 x2 == TwiceExact(v)
             IN  /\ 2 * cout.n <= x2
                 /\ x2 < 2 * cout.n + 2
                 /\ v = 0 => cout.n = 32767
                 /\ v = -5 => cout.n = 0
                 /\ v = 5 => cout.n = 65535

\* C6 witness: 0 V has been converted to 32767.
C6_Witness == cstage = "bits" /\ cin.n = 0 /\ cout = R(32767)

\* C7: for every grid voltage v in [-5, 5], bits_to_volts(volts_to_bits(v)) is
\* within one quantization step, 2/13107 V, of v.
C7_RoundTrip ==
    cstage = "back" =>
        LET diff == cout.n * cin.d - cin.n * cout.d
            mag == IF diff < 0 THEN -diff ELSE diff
        IN  13107 * mag <= 2 * cout.d * cin.d

\* C7 witness: a voltage that is not a whole number of volts has made the round
\* trip and has not come back exactly.
C7_Witness ==
    /\ cstage = "back"
    /\ cin.n % cin.d # 0
    /\ cout.n * cin.d # cin.n * cout.d

\* the value a correction function's output w is clamped to
Clamped(w) == IF RLt(w, R(-5)) THEN R(-5) ELSE IF RLt(R(5), w) THEN R(5) ELSE w

\* the correction an analog_write call in progress applies, if it applies one
Applies(t) ==
    /\ call[t].op = "analog_write"
    /\ call[t].correct
    /\ call[t].ch \in Chan
    /\ dac_correct[call[t].ch] # NoneV

\* C8: an analog_write that applies a DAC correction function f to channel c sends
\* 'v'c with the bits of f(volts) clamped into [-5, 5], an argument in 0..65535,
\* and the call does not fail on its argument.
C8_Clamped ==
    \A t \in Callers :
        Applies(t) =>
            LET w == Clamped(PolyEval(dac_correct[call[t].ch], call[t].v))
                bits == Trunc(13107 * w.n + 65535 * w.d, 2 * w.d)
            IN  /\ bits \in 0..65535
                /\ At(t, "cmd") => Head(prog[t]).arg = bits
                /\ tx # << >> =>
                     /\ Len(tx) = 1
                     /\ IsCommand(tx[1], t, << "v" >> \o Str(call[t].ch), bits)
                /\ pc[t] = "idle" => result[t].kind = "returned" /\ tx # << >>

\* C8 witness: analog_write(0, 5) under the correction 2*x has sent v0 with 65535,
\* the bits of 5 V and not of 10 V.
C8_Witness ==
    \E t \in Callers :
        /\ Applies(t)
        /\ call[t].ch = 0 /\ call[t].v = R(5)
        /\ tx = << [by |-> t, bytes |-> << 118, 48, 255, 255 >>] >>

\* C9 as claimed: an analog_write whose channel is none of 0, 1, 2, 3, "all" ends
\* with an error, with or without correction.
C9_InvalidChannelFails ==
    \A t \in Callers :
        (/\ call[t].op = "analog_write"
         /\ call[t].ch \notin Chan \cup {ChAll}
         /\ pc[t] = "idle") => result[t].kind # "returned"

\* C10: an analog_read whose channel is not one of 0, 1, 2, 3 writes nothing to
\* the transport and ends with ValueError ("Invalid channel").
C10_ReadChannel ==
    \A t \in Callers :
        (call[t].op = "analog_read" /\ call[t].ch \notin Chan) =>
            /\ tx = << >>
            /\ ~InWrite(t)
            /\ pc[t] = "idle" => result[t].kind = "ValueError"

\* C10 witness: analog_read(-1) has raised ValueError.
C10_Witness ==
    \E t \in Callers :
        /\ call[t].op = "analog_read" /\ call[t].ch = -1
        /\ pc[t] = "idle" /\ result[t].kind = "ValueError"

\* equality of two numbers as values
RatEq(a, b) == a.n * b.d = b.n * a.d

\* the sample values of the well-formed payloads, field by field
FieldBits(str) ==
    CASE str = << "0" >> -> << 0 >>
      [] str = << "f", ",", "1" >> -> << 15, 1 >>

WellFormed(str) == str \in { << "0" >>, << "f", ",", "1" >> }

\* does analog_read apply a correction function in this call?
AdcApplies(t) == call[t].correct /\ adc_correct[call[t].ch] # NoneV

\* C11: analog_read(channel, samples) for a channel in 0..3 makes one transport
\* write, 'A' and the channel's digit with the sample count as argument, and from
\* a well-formed response returns one voltage per field, in the response's order:
\* 2*bits/13107 - 5, to which the channel's correction, if any, is then applied.
C11_ReadDecodes ==
    /\ [](\A t \in Callers :
         (call[t].op = "analog_read" /\ call[t].ch \in Chan) =>
            /\ tx # << >> =>
                 /\ Len(tx) = 1
                 /\ IsCommand(tx[1], t, << "A" >> \o Str(call[t].ch), call[t].n)
            /\ (pc[t] = "idle" /\ result[t].kind = "returned") =>
                 /\ Len(tx) = 1
                 /\ Len(result[t].val.list) >= 1)
    /\ [][\A t \in Callers :
            (call[t].op = "analog_read" /\ At(t, "decode") /\ WellFormed(ret[t].str)) =>
               LET bits == FieldBits(ret[t].str)
                   out == ret'[t].list
               IN  /\ Len(out) = Len(bits)
                   /\ \A i \in 1..Len(bits) :
                        LET raw == [n |-> 2 * bits[i] - 5 * 13107, d |-> 13107]
                        IN  IF AdcApplies(t)
                            THEN out[i] = PolyEval(adc_correct[call[t].ch], raw)
                            ELSE RatEq(out[i], raw)]_vars

\* C11 witness: analog_read(2, 500) has sent 'A', '2', 0x01, 0xf4 and returned two
\* voltages, the first the greater.
C11_Witness ==
    \E t \in Callers :
        /\ call[t].op = "analog_read" /\ call[t].ch = 2 /\ call[t].n = 500
        /\ pc[t] = "idle" /\ result[t].kind = "returned"
        /\ tx = << [by |-> t, bytes |-> << 65, 50, 1, 244 >>] >>
        /\ Len(result[t].val.list) = 2
        /\ RLt(result[t].val.list[2], result[t].val.list[1])

\* a payload no list of samples can be read from: no field at all, an empty
\* field, or a character that is no hexadecimal digit
Malformed(str) ==
    \/ str = << >>
    \/ str[1] = "," \/ str[Len(str)] = ","
    \/ \E i \in 1..(Len(str) - 1) : str[i] = "," /\ str[i + 1] = ","
    \/ \E i \in 1..Len(str) :
         str[i] \notin {"0", "1", "2", "3", "4", "5", "6", "7", "8", "9",
                        "a", "b", "c", "d", "e", "f", ","}

\* C12: when the response analog_read has to decode is malformed, the call ends
\* there with ValueError: no list, partial or whole, is produced.
C12_Malformed ==
    [][\A t \in Callers :
          (At(t, "decode") /\ Malformed(ret[t].str)) =>
             /\ result'[t].kind = "ValueError"
             /\ pc'[t] \in {"idle", "failed"}
             /\ "list" \notin DOMAIN ret'[t]]_vars

\* C12 witness: an analog_read whose command was sent has ended with ValueError.
C12_Witness ==
    \E t \in Callers :
        /\ call[t].op = "analog_read" /\ call[t].ch \in Chan
        /\ Len(tx) = 1
        /\ pc[t] = "idle" /\ result[t].kind = "ValueError"

\* the call of caller t has returned to its caller
Returned(t) == pc[t] = "idle" /\ result[t].kind = "returned"

\* C13 as claimed: an analog_write or analog_read with correction requested that
\* sent or returned the value with no correction function applied has completed
\* with a warning, whatever the channel selector, "all" included.
C13_WarnsWhenUncorrected ==
    \A t \in Callers :
        /\ (/\ call[t].op = "analog_write" /\ call[t].correct
            /\ Returned(t) /\ tx # << >>
            /\ (call[t].ch = ChAll \/ dac_correct[call[t].ch] = NoneV))
              => warns[t] # << >>
        /\ (/\ call[t].op = "analog_read" /\ call[t].correct
            /\ Returned(t)
            /\ adc_correct[call[t].ch] = NoneV)
              => warns[t] # << >>

RampSetters ==
    {"ramp_period", "ramp_amplitude", "ramp_offset", "ramp_phase", "ramp_function"}

\* the value argument of the ramp setter call is outside the setter's documented range
OutOfRange(c) ==
    /\ c.v # NoneV
    /\ CASE c.op = "ramp_period" -> RLe(c.v, R(0))
         [] c.op = "ramp_amplitude" -> RLt(c.v, R(0)) \/ RLt(R(5), c.v)
         [] c.op = "ramp_offset" -> RLt(c.v, R(-5)) \/ RLt(R(5), c.v)
         [] c.op = "ramp_phase" -> RLt(c.v, R(0)) \/ RLt(R(100), c.v)
         [] c.op = "ramp_function" -> c.v.name \notin {"triangle", "sin", "square"}

\* C14 as claimed: a ramp setter called for a channel 0..3 or "all" with a value
\* outside its documented range ends with an error.
C14_OutOfRangeFails ==
    \A t \in Callers :
        (/\ call[t].op \in RampSetters
         /\ call[t].ch \in Chan \cup {ChAll}
         /\ OutOfRange(call[t])
         /\ pc[t] = "idle") => result[t].kind = "ValueError"

\* the transport write w is the select-channel command
IsSelect(w) == w.bytes[1] = 114 /\ w.bytes[2] = 99

\* C15 as claimed: when a ramp method's call has ended, by returning or by raising,
\* the commands it sent are pairs: each 'rc' is followed by a parameter command.
C15_SelectThenParameter ==
    \A t \in Callers :
        (call[t].op \in RampSetters \cup {"ramp_on", "ramp_off"} /\ pc[t] = "idle") =>
            /\ Len(tx) % 2 = 0
            /\ \A i \in 1..Len(tx) : IsSelect(tx[i]) <=> i % 2 = 1

\* the argument the parameter command of field f carries for the cached value x
CacheArg(f, x) ==
    CASE f = "on" -> IF x THEN 1 ELSE 0
      [] f = "period" -> IF x.d = 1 THEN x.n ELSE -2
      [] f = "amplitude" -> volts_to_bits(x)
      [] f = "offset" -> volts_to_bits(x)
      [] f = "phase" -> phase_bits(x)
      [] f = "function" -> func_num(x)

\* C16 as claimed: whenever the session is constructed and no call is in progress,
\* the cached value of every ramp parameter of every channel 0..3 is the value
\* most recently sent to the device for that channel, also after a call that was
\* rejected or raised.
C16_CacheMirrorsDevice ==
    \A t \in Callers :
        pc[t] = "idle" =>
            \A f \in RampFields, c \in Chan : sentRamp[f][c] = CacheArg(f, ramp[f][c])

\* the call is a ramp getter: ramp_running, or a setter without its value argument
IsGetter(c) == c.op = "ramp_running" \/ (c.op \in RampSetters /\ c.v = NoneV)

\* the cache field a getter reads
GetterField(c) ==
    CASE c.op = "ramp_running" -> "on"       [] c.op = "ramp_period" -> "period"
      [] c.op = "ramp_amplitude" -> "amplitude" [] c.op = "ramp_offset" -> "offset"
      [] c.op = "ramp_phase" -> "phase"      [] c.op = "ramp_function" -> "function"

\* the cached value as the Python value the getter hands back
Cached(f, c) ==
    CASE f = "on" -> BoolV(ramp[f][c])
      [] f = "function" -> NameV(ramp[f][c])
      [] OTHER -> ramp[f][c]

\* C17: a ramp getter called for a channel 0..3 writes nothing to the transport,
\* leaves the cache as it was at every step, and returns the cached value of its
\* parameter for that channel.
C17_Getter ==
    /\ [](\A t \in Callers :
         (IsGetter(call[t]) /\ call[t].ch \in Chan) =>
            /\ tx = << >>
            /\ ~InWrite(t)
            /\ pc[t] = "idle" =>
                 result[t] = [kind |-> "returned",
                              val |-> Cached(GetterField(call[t]), call[t].ch)])
    /\ [][\A t \in Callers :
            (IsGetter(call[t]) /\ call[t].ch \in Chan /\ pc[t] = "run") =>
                ramp' = ramp /\ sentRamp' = sentRamp]_vars

\* C17 witness: ramp_running(1) has returned the cached flag of channel 1.
C17_Witness ==
    \E t \in Callers :
        /\ call[t].op = "ramp_running" /\ call[t].ch = 1
        /\ pc[t] = "idle"
        /\ result[t] = [kind |-> "returned", val |-> BoolV(FALSE)]

\* construction has returned and nothing has been called since
Constructed(t) == call[t].op = "__init__" /\ pc[t] = "idle"

\* the first character of the identifier of the transport write w
Family(w) == w.bytes[1]

\* C18: when construction has returned, the last values sent for every channel
\* 0..3 are ramp off, period 100, amplitude 5 V (65535), offset 0 V (32767),
\* phase 0 and triangle (0); after the last ramp command comes the broadcast 'va'
\* with 0 V (32767), and after it, last of all, the reads 'A0', 'A1', 'A2', 'A3' of
\* 5 samples each, whose values are dropped; the cache holds the defaults.
C18_Baseline ==
    \A t \in Callers :
        Constructed(t) =>
            /\ result[t] = [kind |-> "returned", val |-> NoneV]
            /\ \A c \in Chan :
                 /\ sentRamp["on"][c] = 0
                 /\ sentRamp["period"][c] = 100
                 /\ sentRamp["amplitude"][c] = 65535
                 /\ sentRamp["offset"][c] = 32767
                 /\ sentRamp["phase"][c] = 0
                 /\ sentRamp["function"][c] = 0
            /\ Len(tx) >= 5
            /\ LET n == Len(tx) IN
                 /\ \A c \in Chan :
                      IsCommand(tx[n - 3 + c], t, << "A" >> \o Str(c), 5)
                 /\ IsCommand(tx[n - 4], t, << "v", "a" >>, 32767)
                 /\ \A i \in 1..(n - 5) : Family(tx[i]) \notin {118, 65}
                 /\ Cardinality({i \in 1..(n - 5) : Family(tx[i]) = 114}) = 48
            /\ ramp = RampDefaults

\* C18 witness: a session constructed over an existing calibration file is ready.
C18_Witness ==
    \E t \in Callers :
        /\ Constructed(t)
        /\ store # NoneV
        /\ Len(tx) = 54

\* construction of t's session is under way or has just returned
InConstruction(t) == call[t].op = "__init__" /\ pc[t] # "new"

\* C19: from the start of construction until the first call after it, the ADC and
\* DAC tables equal the file's tables entry for entry when a path is given and the
\* file exists, and hold eight absent entries otherwise; no step of construction
\* creates or changes the file.
C19_LoadAtStart ==
    /\ [](\A t \in Callers :
             InConstruction(t) =>
                 IF calibration_location # NoneV /\ store # NoneV
                 THEN /\ \A c \in Chan : adc_correct[c] = store.adc[c]
                      /\ \A c \in Chan : dac_correct[c] = store.dac[c]
                 ELSE /\ \A c \in Chan : adc_correct[c] = NoneV
                      /\ \A c \in Chan : dac_correct[c] = NoneV)
    /\ [][\A t \in Callers : InConstruction(t)' => store' = store]_vars

\* C19 witness: construction over an existing file has returned with the file's
\* DAC entry of channel 3 in the session's table.
C19_Witness ==
    \E t \in Callers :
        /\ Constructed(t)
        /\ store # NoneV
        /\ dac_correct[3] = store.dac[3]
        /\ dac_correct[3] # NoneV

\* adc_calibrate has returned to its caller
AdcCalibrated(t) ==
    call[t].op = "adc_calibrate" /\ pc[t] = "idle" /\ result[t].kind = "returned"

\* C20: once adc_calibrate(channel) has returned, the session's ADC entry of the
\* channel is the line fitted to the sweep's data, whether no path was given, the
\* path's file did not exist or the file existed.
C20_MemoryHoldsFit ==
    \A t \in Callers :
        AdcCalibrated(t) =>
            adc_correct[call[t].ch] = polyfit(adc_readings[t], actual_readings[t])

\* a calibration has returned to its caller
CalibrationDone(t) ==
    /\ call[t].op \in {"adc_calibrate", "dac_calibrate"}
    /\ pc[t] = "idle"
    /\ result[t].kind = "returned"

\* the direction of t's calibration and the line fitted to its sweep
DirOf(t) == IF call[t].op = "adc_calibrate" THEN "adc" ELSE "dac"
FitOf(t) ==
    IF call[t].op = "adc_calibrate"
    THEN polyfit(adc_readings[t], actual_readings[t])
    ELSE polyfit(actual_readings[t], input_v)

\* C21: once adc_calibrate or dac_calibrate of a channel has returned on a session
\* with a path, the file exists and its entry of that direction and channel is the
\* line fitted by the call.
C21_StoreHoldsFit ==
    \A t \in Callers :
        CalibrationDone(t) /\ calibration_location # NoneV =>
            /\ store # NoneV
            /\ store[DirOf(t)][call[t].ch] = FitOf(t)

Dirs == {"adc", "dac"}

\* C22: a step that changes an existing calibration file is a step of a
\* calibration, and it leaves every entry other than the one of the calibration's
\* direction and channel as it was in the file.
C22_OtherEntriesKept ==
    [][store # NoneV /\ store' # store =>
          \E t \in Callers :
              /\ call[t].op \in {"adc_calibrate", "dac_calibrate"}
              /\ pc[t] = "run"
              /\ \A d \in Dirs, c \in Chan :
                     (d # DirOf(t) \/ c # call[t].ch) => store'[d][c] = store[d][c]]_vars

\* C22 witness: dac_calibrate(0) has rewritten an existing file: entry 0 of the DAC
\* table is the new fit, and DAC entry 3 and ADC entry 0 are the file's old ones.
C22_Witness ==
    \E t \in Callers :
        /\ CalibrationDone(t)
        /\ call[t].op = "dac_calibrate" /\ call[t].ch = 0
        /\ calibration[t] # NoneV /\ ~calibration[t].own
        /\ store.dac[0] = FitOf(t)
        /\ store.dac[0] # StoredTable.dac[0]
        /\ store.dac[3] = StoredTable.dac[3]
        /\ store.adc[0] = StoredTable.adc[0]

\* t's calibration is of the method and channel of the earlier one
Recalibrates(t) ==
    earlier # NoneV /\ earlier.op = call[t].op /\ earlier.ch = call[t].ch

\* the two sweeps gave the same data
SameData(t) ==
    /\ earlier.adc_readings = adc_readings[t]
    /\ earlier.actual_readings = actual_readings[t]

\* C23: when a calibration of the method and channel of the earlier one has
\* returned, the session's entry is the one the earlier call left if the two sweeps
\* gave the same data, and the line fitted to the new data alone if they did not.
C23_DependsOnSweepOnly ==
    \A t \in Callers :
        CalibrationDone(t) /\ Recalibrates(t) =>
            IF SameData(t) THEN Entry(t) = earlier.entry ELSE Entry(t) = FitOf(t)

\* the table a session's save step holds: the one it read from the file with its
\* one entry replaced, or the session's own two lists
Held(cal, adc, dac) ==
    IF cal.own THEN [adc |-> adc, dac |-> dac] ELSE [adc |-> cal.adc, dac |-> cal.dac]

\* C24: nothing ties a session's read of the file to its write.  A step that
\* changes the file is the dump of one of the two sessions, and it writes the
\* whole table that session holds, whatever the file has become since the
\* session read it; so the entry the other session wrote in between is lost.
C24_WholeTableWrittenBack ==
    [][store' # store =>
          \/ \E t \in Callers :
                 /\ At(t, "dump")
                 /\ store' = Held(calibration[t], adc_correct, dac_correct)
          \/ /\ peer.pc = "updated"
             /\ store' = Held(peer.calibration, peer.adc_correct, peer.dac_correct)]_vars

\* C24 witness (the lost update): dac_calibrate has returned in one session and
\* the other session has saved its calibration of another channel; the file holds
\* the first session's fit and lacks the other's.
C24_Witness ==
    \E t \in Callers :
        /\ CalibrationDone(t)
        /\ call[t].op = "dac_calibrate" /\ call[t].ch # PeerChan
        /\ peer.pc = "done"
        /\ store # NoneV
        /\ store.dac[call[t].ch] = FitOf(t)
        /\ store.dac[PeerChan] # PeerFit

\* C25: for a sweep whose raw values are 2 * true + 1 exactly, the fitted function
\* has slope 1/2 and intercept -1/2, and applied to each raw value of the sweep it
\* gives the true value back.
C25_RecoversLine ==
    /\ cstage = "fitted" => cout = Poly([n |-> 1, d |-> 2], [n |-> -1, d |-> 2])
    /\ cstage = "applied" => \A i \in 1..FitLen : RatEq(cout[i], R(cin[i]))

\* C25 witness: the fit of a sweep with a repeated point, 5 V, 0 V, ..., 0 V, has
\* been applied to the sweep's raw values.
C25_Witness ==
    /\ cstage = "applied"
    /\ cin[1] = 5
    /\ \A i \in 2..FitLen : cin[i] = 0
    /\ RatEq(cout[1], R(5))

\* the calls that send ramp commands, and the parameter command of each
RampCalls == RampSetters \cup {"ramp_on", "ramp_off"}
CommandOf(op) ==
    CASE op = "ramp_on" -> << "r", "1" >>        [] op = "ramp_off" -> << "r", "0" >>
      [] op = "ramp_period" -> << "r", "p" >>    [] op = "ramp_amplitude" -> << "r", "a" >>
      [] op = "ramp_offset" -> << "r", "o" >>    [] op = "ramp_phase" -> << "r", "s" >>
      [] op = "ramp_function" -> << "r", "f" >>

\* the channel the k-th pair of commands of the call is for
TargetOf(c, k) == IF c.ch = ChAll THEN k - 1 ELSE c.ch

\* the call sets a value the setter's range admits
Sets(c) == c.op \in {"ramp_on", "ramp_off"} \/ (c.v # NoneV /\ ~OutOfRange(c))

\* C26: at every moment of a ramp call the commands sent so far are, in turn, an
\* 'rc' carrying the target channel and the call's parameter command, the k-th
\* pair of a call with "all" being for channel k - 1: a parameter command always
\* comes right after the 'rc' of its channel.  When a call that sets an admitted
\* value has returned it has sent one such pair, or with "all" four pairs, eight
\* commands, for channels 0, 1, 2, 3 in that order.
C26_PairsInOrder ==
    \A t \in Callers :
        call[t].op \in RampCalls =>
            /\ \A i \in 1..Len(tx) :
                   /\ tx[i].by = t
                   /\ Len(tx[i].bytes) = 4
                   /\ IF i % 2 = 1
                      THEN /\ IsSelect(tx[i])
                           /\ 256 * tx[i].bytes[3] + tx[i].bytes[4]
                                = TargetOf(call[t], (i + 1) \div 2)
                      ELSE /\ tx[i].bytes[1] = Ord(CommandOf(call[t].op)[1])
                           /\ tx[i].bytes[2] = Ord(CommandOf(call[t].op)[2])
            /\ (pc[t] = "idle" /\ result[t].kind = "returned" /\ Sets(call[t])) =>
                   Len(tx) = IF call[t].ch = ChAll THEN 8 ELSE 2

\* C26 witness: ramp_amplitude("all", 5) has returned after eight commands.
C26_Witness ==
    \E t \in Callers :
        /\ call[t].op = "ramp_amplitude" /\ call[t].ch = ChAll /\ call[t].v = R(5)
        /\ pc[t] = "idle" /\ result[t].kind = "returned"
        /\ Len(tx) = 8
        /\ IsCommand(tx[7], t, RC, 3)
        /\ IsCommand(tx[8], t, << "r", "a" >>, 65535)

\* the cache field a ramp call sets, and the value it sets it to
FieldOf(op) == IF op \in {"ramp_on", "ramp_off"} THEN "on" ELSE GetterField([op |-> op])
NewValue(c) ==
    CASE c.op = "ramp_on" -> TRUE [] c.op = "ramp_off" -> FALSE
      [] c.op = "ramp_function" -> c.v.name [] OTHER -> c.v

\* the first call after construction, a ramp call with "all" that sets a value,
\* has ended with the port's exception
Interrupted(t) ==
    /\ call[t].op \in RampCalls /\ call[t].ch = ChAll /\ Sets(call[t])
    /\ pc[t] = "idle" /\ result[t].kind = "SerialException"
    /\ opsLeft = MaxOps - 1

\* C27: when the port fails during a ramp call with "all", the exception ends the
\* call and there is a channel k such that every channel below k has the new
\* value in the cache and was sent it, every channel above k has in the cache and
\* on the device the value it had before the call (construction's default), and
\* no command was sent for a channel above k.
C27_PartialFanOut ==
    \A t \in Callers :
        Interrupted(t) =>
            LET f == FieldOf(call[t].op)
                new == NewValue(call[t])
                old == RampDefaults[f]
            IN  /\ prog[t] = << >>
                /\ \E k \in Chan :
                     /\ \A c \in Chan : c < k =>
                            ramp[f][c] = new /\ sentRamp[f][c] = CacheArg(f, new)
                     /\ \A c \in Chan : c > k =>
                            ramp[f][c] = old[c] /\ sentRamp[f][c] = CacheArg(f, old[c])
                     /\ 2 * k <= Len(tx) /\ Len(tx) <= 2 * (k + 1)

\* C27 witness: ramp_period("all", 50) failed while it handled channel 1: channel
\* 0 has 50 in the cache and on the device, channels 2 and 3 still have 100.
C27_Witness ==
    \E t \in Callers :
        /\ Interrupted(t)
        /\ call[t].op = "ramp_period" /\ call[t].v = R(50)
        /\ Len(tx) = 3
        /\ ramp["period"][0] = R(50) /\ sentRamp["period"][0] = 50
        /\ ramp["period"][2] = R(100) /\ sentRamp["period"][2] = 100
        /\ sentRamp["period"][1] = 100

\* the commands of a calibration call, by kind
IsDacWrite(m) == m.bytes[1] = Ord("v")
IsAdcRead(m) == m.bytes[1] = Ord("A")

\* the DAC channel a calibration call drives, whether its writes ask for correction,
\* and the voltage its j-th write is called with: -5, then -5, -4, ..., 5
SweepDac(t) == IF call[t].op = "adc_calibrate" THEN 0 ELSE call[t].ch
SweepCorrect(t) == call[t].op = "adc_calibrate"
Commanded(j) == IF j = 1 THEN R(-5) ELSE R(j - 7)

\* C28: at every moment of adc_calibrate or dac_calibrate the commands sent so far
\* are DAC writes and (adc_calibrate only) 500-sample reads of the calibrated
\* channel; the j-th DAC write is the one analog_write sends for -5 V (j = 1) and
\* then for -5, -4, ..., 5 V; no more than twelve are sent; the meter readings
\* taken never outnumber the steps written, the ADC reads never outnumber the meter
\* readings, and a step's write waits for the step before to be complete.  The
\* tables, the loaded dict and the file change only once eleven readings are
\* taken, and a call that returned has made twelve writes and eleven steps.
C28_SweepOrder ==
    /\ [](\A t \in Callers :
            call[t].op \in {"adc_calibrate", "dac_calibrate"} =>
              LET W == SelectSeq(tx, IsDacWrite)
                  A == SelectSeq(tx, IsAdcRead)
                  M == Len(actual_readings[t])
                  N == Len(adc_readings[t])
                  adc == call[t].op = "adc_calibrate"
              IN  /\ Len(tx) = Len(W) + Len(A)
                  /\ Len(W) <= 12
                  /\ \A j \in 1..Len(W) :
                        W[j].bytes = byte_list(<< "v" >> \o Str(SweepDac(t)),
                            volts_to_bits(aw_val(SweepDac(t), Commanded(j), SweepCorrect(t))))
                  /\ \A j \in 1..Len(A) :
                        A[j].bytes = byte_list(<< "A" >> \o Str(call[t].ch), 500)
                  /\ \A i \in 1..Len(tx) : IsAdcRead(tx[i]) <=> (adc /\ i > 2 /\ i % 2 = 1)
                  /\ IF Len(W) = 0 THEN M = 0 /\ N = 0
                     ELSE /\ M <= Len(W) - 1
                          /\ Len(A) <= M
                          /\ N <= Len(A)
                          /\ Len(W) - 1 <= (IF adc THEN N ELSE M) + 1
                  /\ ~adc => N = 0
                  /\ (calibration[t] # NoneV \/ CalibrationDone(t)) =>
                        Len(W) = 12 /\ M = 11 /\ (adc => N = 11 /\ Len(A) = 11))
    /\ [][\A t \in Callers :
            (/\ call[t].op \in {"adc_calibrate", "dac_calibrate"}
             /\ pc[t] = "run"
             /\ \/ adc_correct' # adc_correct \/ dac_correct' # dac_correct
                \/ store' # store \/ calibration'[t] # calibration[t])
               => /\ Len(actual_readings[t]) = 11
                  /\ call[t].op = "adc_calibrate" => Len(adc_readings[t]) = 11]_vars

\* C28 witness: adc_calibrate of channel 3 has returned after twelve DAC writes and
\* eleven reads of channel 3.
C28_Witness ==
    \E t \in Callers :
        /\ CalibrationDone(t) /\ call[t].op = "adc_calibrate" /\ call[t].ch = 3
        /\ Len(tx) = 23
        /\ Len(actual_readings[t]) = 11 /\ Len(adc_readings[t]) = 11

\* C29: in adc_calibrate and dac_calibrate every DAC write carries the bits of the
\* commanded voltage itself, -5 V and then -5, -4, ..., 5 V, whatever correction
\* the driven DAC channel has, and every ADC answer is decoded into the voltages of
\* its fields with no correction, whatever correction the read channel has.
C29_RawPath ==
    /\ [](\A t \in Callers :
            call[t].op \in {"adc_calibrate", "dac_calibrate"} =>
              LET W == SelectSeq(tx, IsDacWrite)
              IN  \A j \in 1..Len(W) :
                     W[j].bytes = byte_list(<< "v" >> \o Str(SweepDac(t)),
                                            volts_to_bits(Commanded(j))))
    /\ [][\A t \in Callers :
            (/\ call[t].op \in {"adc_calibrate", "dac_calibrate"}
             /\ At(t, "decode")
             /\ pc'[t] = "run" /\ prog'[t] = Tail(prog[t]))
               => ret'[t] = ListV(ar_voltages(ret[t].str))]_vars

\* C30: a ramp setter or getter called with a channel that is none of 0, 1, 2, 3
\* and "all" ends with an exception: it never returns a value.
C30_InvalidChannelFails ==
    \A t \in Callers :
        (/\ call[t].op \in RampCalls \cup {"ramp_running"}
         /\ call[t].ch \notin Chan \cup {ChAll}
         /\ pc[t] = "idle")
            => result[t].kind \in {"IndexError", "ValueError"}

\* C32: when the first ramp setter call after construction has ended with an error
\* that is not the port's (a rejected value, an index out of range, an argument
\* that does not fit two bytes), the cache of all four channels is what it was
\* before the call, construction's defaults.
C32_ErrorLeavesCache ==
    \A t \in Callers :
        (/\ call[t].op \in RampCalls
         /\ pc[t] = "idle"
         /\ result[t].kind \in {"ValueError", "IndexError"}
         /\ opsLeft = MaxOps - 1)
            => ramp = RampDefaults

\* a calibration call has ended with an exception
Aborted(t) ==
    /\ call[t].op \in {"adc_calibrate", "dac_calibrate"}
    /\ pc[t] = "idle"
    /\ result[t].kind \notin {"returned", "running"}

\* the sweep of t's calibration has not yet all its data
BeforeFit(t) ==
    \/ Len(actual_readings[t]) < 11
    \/ call[t].op = "adc_calibrate" /\ Len(adc_readings[t]) < 11

\* C33: no step of a calibration whose sweep is incomplete, the step that raises
\* included, changes the session's two tables or the file; so when the first
\* calibration after construction has ended with an exception (the meter's, the
\* port's, or the ValueError of a malformed ADC answer) its sweep is incomplete,
\* the tables are what construction loaded from the file as it is, and nothing
\* was loaded for writing back.
C33_AbortLeavesTables ==
    /\ [](\A t \in Callers :
            (Aborted(t) /\ opsLeft = MaxOps - 1) =>
                /\ BeforeFit(t)
                /\ adc_correct = load_calibration(calibration_location, store).adc
                /\ dac_correct = load_calibration(calibration_location, store).dac
                /\ calibration[t] = NoneV)
    /\ [][\A t \in Callers :
            (/\ call[t].op \in {"adc_calibrate", "dac_calibrate"}
             /\ pc[t] \in {"run", "w_first", "w_loop"}
             /\ BeforeFit(t))
               => /\ adc_correct' = adc_correct
                  /\ dac_correct' = dac_correct
                  /\ store' = store]_vars

\* C33 witness: dac_calibrate of channel 3, on a session that loaded the file's
\* tables, ended with the meter's exception after two readings.
C33_Witness ==
    \E t \in Callers :
        /\ Aborted(t) /\ opsLeft = MaxOps - 1
        /\ call[t].op = "dac_calibrate" /\ call[t].ch = 3
        /\ result[t].kind = "IOError"
        /\ Len(actual_readings[t]) = 2
        /\ store = StoredTable /\ dac_correct = StoredTable.dac

\* t's call is a ramp_amplitude of one channel, and the last command it sent is its
\* parameter command, the i-th of the log
ParamSentAt(t, i) ==
    /\ call[t].op = "ramp_amplitude" /\ call[t].ch \in Chan
    /\ i \in 1..Len(tx)
    /\ tx[i].by = t /\ ~IsSelect(tx[i])
    /\ \A j \in (i + 1)..Len(tx) : tx[j].by # t

\* the select-channel commands that precede the i-th command of the log
SelectsBefore(i) == { j \in 1..(i - 1) : IsSelect(tx[j]) }
LastSelectBefore(i) == CHOOSE j \in SelectsBefore(i) : \A k \in SelectsBefore(i) : k <= j

\* t's parameter command reached the device while the other caller's channel was
\* selected
Misapplied(t) ==
    \E i \in 1..Len(tx) :
        /\ ParamSentAt(t, i)
        /\ SelectsBefore(i) # {}
        /\ 256 * tx[LastSelectBefore(i)].bytes[3] + tx[LastSelectBefore(i)].bytes[4]
              # call[t].ch

\* write() handed t's ramp call a payload, which no ramp command is answered
\* with: bytes of the answer to the other caller's command
Crossed(t) ==
    /\ call[t].op = "ramp_amplitude"
    /\ ret[t] # NoneV /\ ret[t].str # << >>

\* C31: with two threads on one session, a parameter command always has a
\* select-channel command before it in the log, and that command carries another
\* channel than the caller's only if it is the other caller's, sent after the
\* caller's own; a ramp call is handed a payload only if the other caller has
\* sent a command too.  Both happen: the witness is reached.  (Stated while no
\* more than two calls have begun, so that the log holds one call of each caller.)
C31_InterferenceIsTheOtherCallers ==
    \A t \in Callers :
      opsLeft >= MaxRace - 2 =>
        /\ \A i \in 1..Len(tx) :
              ParamSentAt(t, i) =>
                 /\ \E j \in SelectsBefore(i) : tx[j].by = t
                 /\ Misapplied(t) =>
                       /\ tx[LastSelectBefore(i)].by # t
                       /\ \E j \in 1..(LastSelectBefore(i) - 1) :
                             /\ tx[j].by = t /\ IsSelect(tx[j])
                             /\ 256 * tx[j].bytes[3] + tx[j].bytes[4] = call[t].ch
        /\ Crossed(t) => \E i \in 1..Len(tx) : tx[i].by # t

\* C31 witness: caller 1 set channel 0's amplitude to 0 V while caller 2 had
\* channel 1 selected: the device was sent 0 V (32767) for channel 1 and has
\* channel 0 still at construction's 5 V, while the cache says 0 V for channel 0;
\* and one of the two ramp calls was handed a payload.
C31_Witness ==
    /\ Misapplied(1)
    /\ call[1].ch = 0 /\ call[1].v = R(0)
    /\ call[2].op = "ramp_amplitude" /\ call[2].ch = 1
    /\ sentRamp["amplitude"][1] = 32767
    /\ sentRamp["amplitude"][0] = 65535
    /\ ramp["amplitude"][0] = R(0)
    /\ \E u \in Callers : Crossed(u)

=============================================================================
